---- MODULE Spec2Model ----
(***************************************************************************)
(* Model of the embedded SNMP responder of internet-connection-monitor     *)
(* (internal/outputs/snmp.go): the statistics store filled by Write, the   *)
(* OID snapshot built from it, and the Get / GetNext / GetBulk dispatch of *)
(* handleRequest.                                                          *)
(*                                                                         *)
(* A request is handled in one step: the reply is computed from the one    *)
(* snapshot buildOIDSnapshot takes under the read lock.                    *)
(***************************************************************************)
EXTENDS Integers, Sequences, FiniteSets, TLC

VARIABLES
    config,         \* s.config: EnterpriseOID and Community
    cache,          \* s.cache: the history buffer
    stats,          \* s.stats: site key -> siteStats
    siteIndex,      \* s.siteIndex: site key -> index
    nextSiteIndex,  \* s.nextSiteIndex
    written,        \* history variable: every record passed to Write, in order
    firstSeen,      \* history variable: distinct site keys in first-seen order
    request,        \* the datagram handed to the last handleRequest call
    snapshot,       \* <<>> or <<[oids, values]>>: snapshot built by that call
    reply,          \* <<>> or <<response>>: what that call sent
    input,          \* the arguments a function is applied to, <<>> when none
    output,         \* <<>> or the values the function returned for them
    walk,           \* a poller walking the tree with GetNext requests
    pc,             \* where each goroutine stands: the constructor's caller
                    \* ("main"), runSNMPAgent ("agent"), the callers of the handle
    mu,             \* s.mu: the writer that holds or awaits it, the readers
    socket,         \* the UDP socket: "unbound", "open" or "closed"
    listener,       \* s.listener: "nil" or "set" (the socket)
    actualPort,     \* s.actualPort
    startupCh,      \* s.startupCh: the values buffered in it (capacity 1)
    wg,             \* s.wg: its counter
    doneCloses,     \* how often close(s.done) ran; s.done is closed when > 0
    listenerCloses, \* how often s.listener.Close() ran
    closeOnce,      \* s.closeOnce: "fresh", "running" or "done"
    closeReturned,  \* history variable: some Close call has returned
    ret,            \* what the call of each goroutine returned
    local,          \* the argument of the call each goroutine is in
    response,       \* <<>> or <<the response handleRequest marshalled>>
    previous,       \* history variable: the kind of the datagram handled last
    heap,           \* the TestResult and siteStats objects callers hold pointers
                    \* to, by address; left empty where no caller keeps one
    cacheRefs,      \* s.cache as it is stored: the addresses of its records
    statsRefs,      \* s.stats as it is stored: site key -> address of its siteStats
    held            \* the addresses a caller of the handle holds

\* the lifecycle of the agent and the calls on its handle
lifeVars == <<pc, mu, socket, listener, actualPort, startupCh, wg, doneCloses,
              listenerCloses, closeOnce, closeReturned, ret, local, response, previous>>

\* the objects behind the pointers of the store and of its callers
heapVars == <<heap, cacheRefs, statsRefs, held>>

\* no object is tracked
NoObjects ==
    /\ heap = <<>>
    /\ cacheRefs = <<>>
    /\ statsRefs = <<>>
    /\ held = {}

vars == <<config, cache, stats, siteIndex, nextSiteIndex, written, firstSeen,
          request, snapshot, reply, input, heapVars, output, walk, lifeVars>>

\* the variables the store and the dispatcher leave alone
sideVars == <<input, heapVars, output, walk, lifeVars>>

storeVars == <<config, cache, stats, siteIndex, nextSiteIndex, written, firstSeen>>

----------------------------------------------------------------------------
(* Bounds of the model *)

\* capacity of the history buffer; the code fixes it at 100 (snmp.go:69),
\* the model scales it down so that eviction is reached
maxSize == 2

\* number of Write calls explored when only the store is observed
MaxWrites == 4

\* number of Write calls explored between requests
MaxServingWrites == 2


\* unix time of the first record
T0 == 1000

\* number of arcs of the longest address handed to compareOIDs alone
MaxArcs == 3

----------------------------------------------------------------------------
(* Small helpers *)

Min(a, b) == IF a < b THEN a ELSE b

Range(f) == {f[x] : x \in DOMAIN f}

\* the last k elements of s
LastN(s, k) == SubSeq(s, Len(s) - k + 1, Len(s))

\* uint32(v) for an int64 or int v.  Every integer of the model lies below
\* 2^31, where the conversion of a non-negative v keeps v; a negative v has
\* no value here and stops the evaluation
uint32(v) == CHOOSE u \in {v} : u >= 0

----------------------------------------------------------------------------------------------------------------------------------------
(* Strings that hold OIDs.  A string over digits and '.' is given by the   *)
(* list of its fields between the dots, strings.Split(s, "."): a field n   *)
(* >= 0 is the decimal numeral of n and Empty is the empty field, so       *)
(* ".1.3" is <<Empty, 1, 3>>, "1.3." is <<1, 3, Empty>>, "" is <<Empty>>   *)
(* and "." is <<Empty, Empty>>.                                            *)

Empty == -1

\* strings.TrimSpace: the strings of the model hold no blank
TrimSpace(s) == s

\* strings.HasPrefix(s, ".")
HasDotPrefix(s) == Len(s) >= 2 /\ s[1] = Empty

\* strings.HasSuffix(s, ".")
HasDotSuffix(s) == Len(s) >= 2 /\ s[Len(s)] = Empty

\* the loop of normalizeOID: for HasSuffix(t, ".") && len(t) > 1 { t = t[:len(t)-1] }
RECURSIVE StripTrailingDots(_)
StripTrailingDots(t) ==
    IF HasDotSuffix(t) /\ t # <<Empty, Empty>>
    THEN StripTrailingDots(SubSeq(t, 1, Len(t) - 1))
    ELSE t

normalizeOID(oid) ==
    LET trimmed == TrimSpace(oid) IN
    IF trimmed = <<Empty>> THEN <<Empty, Empty>>
    ELSE StripTrailingDots(IF HasDotPrefix(trimmed) THEN trimmed ELSE <<Empty>> \o trimmed)

\* strings.Split(strings.TrimPrefix(s, "."), "."): the fields after the
\* leading dot, when there is one
SplitTrimmed(s) == IF HasDotPrefix(s) THEN Tail(s) ELSE s

\* strconv.Atoi(field) as compareOIDs uses it: the value, or 0 on error
AtoiOrZero(field) == IF field >= 0 THEN field ELSE 0

\* component i of a split OID, 0 when i is past its end
Component(p, i) == IF i <= Len(p) THEN AtoiOrZero(p[i]) ELSE 0

\* faulty variant: the length tie-break is missing
RECURSIVE CompareFrom_NoTieBreak(_, _, _, _)
CompareFrom_NoTieBreak(ap, bp, i, maxLen) ==
    IF i > maxLen THEN 0
    ELSE LET ai == Component(ap, i)
             bi == Component(bp, i)
         IN  IF ai < bi THEN -1
             ELSE IF ai > bi THEN 1
             ELSE CompareFrom_NoTieBreak(ap, bp, i + 1, maxLen)

\* the loop of compareOIDs from component i on, and the length tie-break
RECURSIVE CompareFrom(_, _, _, _)
CompareFrom(ap, bp, i, maxLen) ==
    IF i > maxLen
    THEN IF Len(ap) < Len(bp) THEN -1
         ELSE IF Len(ap) > Len(bp) THEN 1
         ELSE 0
    ELSE LET ai == Component(ap, i)
             bi == Component(bp, i)
         IN  IF ai < bi THEN -1
             ELSE IF ai > bi THEN 1
             ELSE CompareFrom(ap, bp, i + 1, maxLen)

\* faulty variant: the fields are compared as strings, digit by digit
RECURSIVE Digits(_)
Digits(n) == IF n < 10 THEN <<n>> ELSE Digits(n \div 10) \o <<n % 10>>

DigitsOf(field) == IF field >= 0 THEN Digits(field) ELSE <<>>

RECURSIVE CompareSeq(_, _, _)
CompareSeq(x, y, i) ==
    IF i > Len(x) \/ i > Len(y)
    THEN IF Len(x) < Len(y) THEN -1 ELSE IF Len(x) > Len(y) THEN 1 ELSE 0
    ELSE IF x[i] < y[i] THEN -1
    ELSE IF x[i] > y[i] THEN 1
    ELSE CompareSeq(x, y, i + 1)

RECURSIVE CompareFields(_, _, _)
CompareFields(ap, bp, i) ==
    IF i > Len(ap) \/ i > Len(bp)
    THEN IF Len(ap) < Len(bp) THEN -1 ELSE IF Len(ap) > Len(bp) THEN 1 ELSE 0
    ELSE LET c == CompareSeq(DigitsOf(ap[i]), DigitsOf(bp[i]), 1) IN
         IF c # 0 THEN c ELSE CompareFields(ap, bp, i + 1)

compareOIDs_AsStrings(a, b) == CompareFields(a, b, 1)

compareOIDs(a, b) ==
    IF a = b THEN 0
    ELSE LET ap == SplitTrimmed(a)
             bp == SplitTrimmed(b)
             maxLen == IF Len(bp) > Len(ap) THEN Len(bp) ELSE Len(ap)
         IN  CompareFrom(ap, bp, 1, maxLen)

\* faulty variant: the scan accepts an element equal to current
RECURSIVE NextFrom_NotStrict(_, _, _)
NextFrom_NotStrict(sorted, i, current) ==
    IF i > Len(sorted) THEN <<>>
    ELSE IF compareOIDs(sorted[i], current) >= 0 THEN <<sorted[i]>>
    ELSE NextFrom_NotStrict(sorted, i + 1, current)

\* the loop of nextOID from position i on
RECURSIVE NextFrom(_, _, _)
NextFrom(sorted, i, current) ==
    IF i > Len(sorted) THEN <<>>
    ELSE IF compareOIDs(sorted[i], current) > 0 THEN <<sorted[i]>>
    ELSE NextFrom(sorted, i + 1, current)

\* nextOID: <<>> when no element of sorted is greater than current,
\* otherwise <<oid>> for the first such element
nextOID(sorted, current) == NextFrom(sorted, 1, current)

\* faulty variant: the comparison of less is reversed
RECURSIVE InsertOID_Reversed(_, _)
InsertOID_Reversed(sorted, x) ==
    IF sorted = <<>> THEN <<x>>
    ELSE IF compareOIDs(x, Head(sorted)) > 0 THEN <<x>> \o sorted
    ELSE <<Head(sorted)>> \o InsertOID_Reversed(Tail(sorted), x)

\* sort.Slice(oids, less): insertion of x before the first element it is less than
RECURSIVE InsertOID(_, _)
InsertOID(sorted, x) ==
    IF sorted = <<>> THEN <<x>>
    ELSE IF compareOIDs(x, Head(sorted)) < 0 THEN <<x>> \o sorted
    ELSE <<Head(sorted)>> \o InsertOID(Tail(sorted), x)

\* the keys of a value map, collected in some order and sorted by compareOIDs
RECURSIVE SortOIDs(_)
SortOIDs(S) ==
    IF S = {} THEN <<>>
    ELSE LET x == CHOOSE y \in S : TRUE IN InsertOID(SortOIDs(S \ {x}), x)

----------------
(* The statistics store *)

\* a time.Time is its unix seconds; the zero time.Time lies before every
\* clock reading (time.Time{}.Unix() is -62135596800, given here in units of
\* 1000 s to fit the integers of the model)
ZeroTime == -62135596

IsZero(t) == t = ZeroTime

\* faulty variant: a record without a name is aggregated under the empty name
SiteKey_NameOnly(result) == result.Site.Name

\* the site key Write aggregates under
SiteKey(result) ==
    IF result.Site.Name = "" THEN result.Site.URL ELSE result.Site.Name

\* faulty variant: the minimum starts at the zero value
NewSiteStats_ZeroMin(d) ==
    [TotalTests |-> 0, SuccessfulTests |-> 0, FailedTests |-> 0,
     LastSuccessTime |-> ZeroTime, LastFailureTime |-> ZeroTime,
     LastDurationMs |-> 0, AvgDurationMs |-> [num |-> 0, den |-> 1],
     MaxDurationMs |-> d, MinDurationMs |-> 0]

\* &siteStats{MinDurationMs: d, MaxDurationMs: d}
NewSiteStats(d) ==
    [TotalTests |-> 0, SuccessfulTests |-> 0, FailedTests |-> 0,
     LastSuccessTime |-> ZeroTime, LastFailureTime |-> ZeroTime,
     LastDurationMs |-> 0, AvgDurationMs |-> [num |-> 0, den |-> 1],
     MaxDurationMs |-> d, MinDurationMs |-> d]

\* faulty variant: the old average is weighted by n instead of n - 1
NextAvg_WrongWeight(avg, n, d) == [num |-> avg.num * n + d * avg.den, den |-> avg.den * n]

\* the running average, kept as an exact fraction:
\* (avg*(n-1) + d) / n
NextAvg(avg, n, d) == [num |-> avg.num * (n - 1) + d * avg.den, den |-> avg.den * n]

\* faulty variant: every write sets the last-success time
UpdateStats_SuccessTimeAlways(st, result) ==
    LET d == result.Timings.TotalDurationMs
        n == st.TotalTests + 1
    IN  [st EXCEPT
           !.TotalTests = n,
           !.LastDurationMs = d,
           !.SuccessfulTests = IF result.Status.Success THEN @ + 1 ELSE @,
           !.LastSuccessTime = result.Timestamp,
           !.FailedTests = IF result.Status.Success THEN @ ELSE @ + 1,
           !.LastFailureTime = IF result.Status.Success THEN @ ELSE result.Timestamp,
           !.MinDurationMs = IF d < @ THEN d ELSE @,
           !.MaxDurationMs = IF d > @ THEN d ELSE @,
           !.AvgDurationMs = NextAvg(@, n, d)]

\* faulty variant: a failure is counted as a success too
UpdateStats_FailureCountsTwice(st, result) ==
    LET d == result.Timings.TotalDurationMs
        n == st.TotalTests + 1
    IN  [st EXCEPT
           !.TotalTests = n,
           !.LastDurationMs = d,
           !.SuccessfulTests = @ + 1,
           !.LastSuccessTime = IF result.Status.Success THEN result.Timestamp ELSE @,
           !.FailedTests = IF result.Status.Success THEN @ ELSE @ + 1,
           !.LastFailureTime = IF result.Status.Success THEN @ ELSE result.Timestamp,
           !.MinDurationMs = IF d < @ THEN d ELSE @,
           !.MaxDurationMs = IF d > @ THEN d ELSE @,
           !.AvgDurationMs = NextAvg(@, n, d)]

\* faulty variant: a failure is not counted in the total
UpdateStats_TotalOfSuccesses(st, result) ==
    LET d == result.Timings.TotalDurationMs
        n == st.TotalTests + 1
    IN  [st EXCEPT
           !.TotalTests = IF result.Status.Success THEN n ELSE @,
           !.LastDurationMs = d,
           !.SuccessfulTests = IF result.Status.Success THEN @ + 1 ELSE @,
           !.LastSuccessTime = IF result.Status.Success THEN result.Timestamp ELSE @,
           !.FailedTests = IF result.Status.Success THEN @ ELSE @ + 1,
           !.LastFailureTime = IF result.Status.Success THEN @ ELSE result.Timestamp,
           !.MinDurationMs = IF d < @ THEN d ELSE @,
           !.MaxDurationMs = IF d > @ THEN d ELSE @,
           !.AvgDurationMs = NextAvg(@, n, d)]

\* the update of one siteStats by one result
UpdateStats(st, result) ==
    LET d == result.Timings.TotalDurationMs
        n == st.TotalTests + 1
    IN  [st EXCEPT
           !.TotalTests = n,
           !.LastDurationMs = d,
           !.SuccessfulTests = IF result.Status.Success THEN @ + 1 ELSE @,
           !.LastSuccessTime = IF result.Status.Success THEN result.Timestamp ELSE @,
           !.FailedTests = IF result.Status.Success THEN @ ELSE @ + 1,
           !.LastFailureTime = IF result.Status.Success THEN @ ELSE result.Timestamp,
           !.MinDurationMs = IF d < @ THEN d ELSE @,
           !.MaxDurationMs = IF d > @ THEN d ELSE @,
           !.AvgDurationMs = NextAvg(@, n, d)]

\* faulty variant: the full test is off by one, the buffer grows to maxSize + 1
AppendToCache_OffByOne(c, result) ==
    Append(IF Len(c) > maxSize THEN Tail(c) ELSE c, result)

\* s.cache after the append of Write
AppendToCache(c, result) ==
    Append(IF Len(c) >= maxSize THEN Tail(c) ELSE c, result)

\* f with key k set to v, k added to the domain when absent
MapSet(f, k, v) == [x \in DOMAIN f \cup {k} |-> IF x = k THEN v ELSE f[x]]

\* faulty variant: the index is stored before nextSiteIndex is incremented
AssignIndex_BeforeIncrement(index, next, siteName) == MapSet(index, siteName, next)

\* s.nextSiteIndex++; s.siteIndex[siteName] = s.nextSiteIndex
AssignIndex(index, next, siteName) == MapSet(index, siteName, next + 1)

\* the first part of Write: the append to the history buffer
appendResult(result) ==
    /\ cache' = AppendToCache(cache, result)
    /\ written' = Append(written, result)

\* the second part of Write: the site's index and aggregates
updateStats(result) ==
    LET siteName == SiteKey(result)
        exists == siteName \in DOMAIN stats
        indexed == siteName \in DOMAIN siteIndex
        stats1 == IF exists THEN stats
                  ELSE MapSet(stats, siteName, NewSiteStats(result.Timings.TotalDurationMs))
    IN  /\ nextSiteIndex' = IF ~exists /\ ~indexed THEN nextSiteIndex + 1 ELSE nextSiteIndex
        /\ siteIndex' = IF ~exists /\ ~indexed
                        THEN AssignIndex(siteIndex, nextSiteIndex, siteName)
                        ELSE siteIndex
        /\ stats' = MapSet(stats1, siteName, UpdateStats(stats1[siteName], result))
        /\ firstSeen' = IF siteName \in Range(firstSeen) THEN firstSeen
                        ELSE Append(firstSeen, siteName)

\* SNMPOutput.Write, run from Lock to Unlock without a step of another goroutine
Write(result) ==
    /\ appendResult(result)
    /\ updateStats(result)
    /\ UNCHANGED config

----------------------------------------------------------------------------------------------------------------------------------------
(* The OID snapshot *)

\* the Value of a PDU: a uint32, the bytes of a string, or nil
UintValue(n) == [kind |-> "uint32", num |-> n, text |-> ""]

BytesValue(str) == [kind |-> "bytes", num |-> 0, text |-> str]

NilValue == [kind |-> "nil", num |-> 0, text |-> ""]

gaugePDU(oid, value) == [Name |-> oid, Type |-> "Gauge32", Value |-> UintValue(value)]

counterPDU(oid, value) == [Name |-> oid, Type |-> "Counter32", Value |-> UintValue(value)]

timeTicksPDU(oid, value) ==
    [Name |-> oid, Type |-> "TimeTicks", Value |-> UintValue(value * 100)]

octetStringPDU(oid, value) ==
    [Name |-> oid, Type |-> "OctetString", Value |-> BytesValue(value)]

\* the zero gosnmp.SnmpPDU, which a Go map yields for a missing key
ZeroPDU == [Name |-> <<Empty>>, Type |-> "UnknownType", Value |-> NilValue]

\* ".1.3.6.1.4.1.99999", the base used when none is configured
DefaultBase == <<Empty, 1, 3, 6, 1, 4, 1, 99999>>

\* base of buildOIDSnapshot
Base ==
    LET base == normalizeOID(config.EnterpriseOID) IN
    IF base = <<Empty, Empty>> THEN DefaultBase ELSE base

\* math.Round of a non-negative fraction (half away from zero)
Round(avg) == (2 * avg.num + avg.den) \div (2 * avg.den)

\* one PDU stored under its own name
Entry(pdu) == (pdu.Name :> pdu)

\* faulty variant: the site count is taken from the history buffer
ScalarPDUs_SitesFromCache(base, uptime) ==
    Entry(gaugePDU(base \o <<1, 0>>, uint32(Len(cache))))
    @@ Entry(gaugePDU(base \o <<2, 0>>, uint32(maxSize)))
    @@ Entry(gaugePDU(base \o <<3, 0>>, uint32(Len(cache))))
    @@ Entry(timeTicksPDU(base \o <<4, 0>>, uint32(uptime)))

\* the four scalar entries of the snapshot
ScalarPDUs(base, uptime) ==
    Entry(gaugePDU(base \o <<1, 0>>, uint32(Len(cache))))
    @@ Entry(gaugePDU(base \o <<2, 0>>, uint32(maxSize)))
    @@ Entry(gaugePDU(base \o <<3, 0>>, uint32(Cardinality(DOMAIN siteIndex))))
    @@ Entry(timeTicksPDU(base \o <<4, 0>>, uint32(uptime)))

\* faulty variant: the maximum and the minimum are exchanged
SiteFields_MinMaxSwapped(prefix, name, st) ==
    Entry(octetStringPDU(prefix \o <<1>>, name))
    @@ Entry(counterPDU(prefix \o <<2>>, uint32(st.TotalTests)))
    @@ Entry(counterPDU(prefix \o <<3>>, uint32(st.SuccessfulTests)))
    @@ Entry(counterPDU(prefix \o <<4>>, uint32(st.FailedTests)))
    @@ Entry(gaugePDU(prefix \o <<5>>,
                      IF ~IsZero(st.LastSuccessTime) THEN uint32(st.LastSuccessTime) ELSE 0))
    @@ Entry(gaugePDU(prefix \o <<6>>,
                      IF ~IsZero(st.LastFailureTime) THEN uint32(st.LastFailureTime) ELSE 0))
    @@ Entry(gaugePDU(prefix \o <<7>>, uint32(st.LastDurationMs)))
    @@ Entry(gaugePDU(prefix \o <<8>>, uint32(Round(st.AvgDurationMs))))
    @@ Entry(gaugePDU(prefix \o <<9>>, uint32(st.MinDurationMs)))
    @@ Entry(gaugePDU(prefix \o <<10>>, uint32(st.MaxDurationMs)))

\* the ten entries of one site under its prefix
SiteFields(prefix, name, st) ==
    Entry(octetStringPDU(prefix \o <<1>>, name))
    @@ Entry(counterPDU(prefix \o <<2>>, uint32(st.TotalTests)))
    @@ Entry(counterPDU(prefix \o <<3>>, uint32(st.SuccessfulTests)))
    @@ Entry(counterPDU(prefix \o <<4>>, uint32(st.FailedTests)))
    @@ Entry(gaugePDU(prefix \o <<5>>,
                      IF ~IsZero(st.LastSuccessTime) THEN uint32(st.LastSuccessTime) ELSE 0))
    @@ Entry(gaugePDU(prefix \o <<6>>,
                      IF ~IsZero(st.LastFailureTime) THEN uint32(st.LastFailureTime) ELSE 0))
    @@ Entry(gaugePDU(prefix \o <<7>>, uint32(st.LastDurationMs)))
    @@ Entry(gaugePDU(prefix \o <<8>>, uint32(Round(st.AvgDurationMs))))
    @@ Entry(gaugePDU(prefix \o <<9>>, uint32(st.MaxDurationMs)))
    @@ Entry(gaugePDU(prefix \o <<10>>, uint32(st.MinDurationMs)))

\* faulty variant: the sites are numbered from the newest to the oldest
SitePDUs_NewestFirst(base, name, index, st) ==
    SiteFields(base \o <<5, Cardinality(DOMAIN stats) + 1 - index>>, name, st)

\* the entries of one site: prefix := fmt.Sprintf("%s.5.%d", base, entry.index)
SitePDUs(base, name, index, st) == SiteFields(base \o <<5, index>>, name, st)

\* the entries of buildOIDSnapshot: the sites that have an index, by index
\* (Write gives no two sites one index, so the tie-break by name never decides)
RECURSIVE EntriesByIndex(_)
EntriesByIndex(names) ==
    IF names = {} THEN <<>>
    ELSE LET first == CHOOSE n \in names : \A m \in names : siteIndex[n] <= siteIndex[m]
         IN  <<first>> \o EntriesByIndex(names \ {first})

\* the loop over the entries: a later entry overwrites an earlier one
RECURSIVE SiteValues(_, _, _)
SiteValues(base, entries, values) ==
    IF entries = <<>> THEN values
    ELSE LET name == Head(entries) IN
         SiteValues(base, Tail(entries),
                    SitePDUs(base, name, siteIndex[name], stats[name]) @@ values)

\* SNMPOutput.buildOIDSnapshot at the given uptime (seconds since startTime)
buildOIDSnapshot(uptime) ==
    LET base == Base
        entries == EntriesByIndex(DOMAIN stats \cap DOMAIN siteIndex)
        values == SiteValues(base, entries, ScalarPDUs(base, uptime))
    IN  [oids |-> SortOIDs(DOMAIN values), values |-> values]

----------------------------------------------------------------------------
(* The request dispatcher *)

NoSuchObject(oid) == [Name |-> oid, Type |-> "NoSuchObject", Value |-> NilValue]

EndOfMibView(oid) == [Name |-> oid, Type |-> "EndOfMibView", Value |-> NilValue]

\* valueMap[oid] of Go: the zero PDU for a missing key
Lookup(valueMap, oid) == IF oid \in DOMAIN valueMap THEN valueMap[oid] ELSE ZeroPDU

\* faulty variant: the lookup result is used without the ok test
GetOne_NoMarker(vb, valueMap) == Lookup(valueMap, normalizeOID(vb.Name))

\* one iteration of handleGet
GetOne(vb, valueMap) ==
    LET oid == normalizeOID(vb.Name) IN
    IF oid \in DOMAIN valueMap THEN valueMap[oid] ELSE NoSuchObject(oid)

handleGet(variables, valueMap) ==
    [i \in 1..Len(variables) |-> GetOne(variables[i], valueMap)]

\* one iteration of handleGetNext, and of the non-repeater loop of handleGetBulk
GetNextOne(vb, valueMap, sortedOIDs) ==
    LET oid == normalizeOID(vb.Name)
        next == nextOID(sortedOIDs, oid)
    IN  IF next = <<>> THEN EndOfMibView(oid) ELSE Lookup(valueMap, next[1])

handleGetNext(variables, valueMap, sortedOIDs) ==
    [i \in 1..Len(variables) |-> GetNextOne(variables[i], valueMap, sortedOIDs)]

\* faulty variant: the loop runs once more (r <= maxRepetitions)
RECURSIVE Repeat_OneMore(_, _, _, _, _)
Repeat_OneMore(current, r, maxRepetitions, valueMap, sortedOIDs) ==
    IF r > maxRepetitions THEN <<>>
    ELSE LET next == nextOID(sortedOIDs, current) IN
         IF next = <<>> THEN <<EndOfMibView(current)>>
         ELSE LET val == Lookup(valueMap, next[1]) IN
              <<val>> \o Repeat_OneMore(val.Name, r + 1, maxRepetitions, valueMap, sortedOIDs)

\* faulty variant: the cursor is not advanced to the returned name
RECURSIVE Repeat_CursorStays(_, _, _, _, _)
Repeat_CursorStays(current, r, maxRepetitions, valueMap, sortedOIDs) ==
    IF r >= maxRepetitions THEN <<>>
    ELSE LET next == nextOID(sortedOIDs, current) IN
         IF next = <<>> THEN <<EndOfMibView(current)>>
         ELSE <<Lookup(valueMap, next[1])>>
              \o Repeat_CursorStays(current, r + 1, maxRepetitions, valueMap, sortedOIDs)

\* faulty variant: the loop goes on after the end of the tree
RECURSIVE Repeat_NoBreak(_, _, _, _, _)
Repeat_NoBreak(current, r, maxRepetitions, valueMap, sortedOIDs) ==
    IF r >= maxRepetitions THEN <<>>
    ELSE LET next == nextOID(sortedOIDs, current) IN
         IF next = <<>>
         THEN <<EndOfMibView(current)>>
              \o Repeat_NoBreak(current, r + 1, maxRepetitions, valueMap, sortedOIDs)
         ELSE LET val == Lookup(valueMap, next[1]) IN
              <<val>> \o Repeat_NoBreak(val.Name, r + 1, maxRepetitions, valueMap, sortedOIDs)

\* the inner loop of handleGetBulk: repetitions r..maxRepetitions-1 from current
RECURSIVE Repeat(_, _, _, _, _)
Repeat(current, r, maxRepetitions, valueMap, sortedOIDs) ==
    IF r >= maxRepetitions THEN <<>>
    ELSE LET next == nextOID(sortedOIDs, current) IN
         IF next = <<>> THEN <<EndOfMibView(current)>>
         ELSE LET val == Lookup(valueMap, next[1]) IN
              <<val>> \o Repeat(val.Name, r + 1, maxRepetitions, valueMap, sortedOIDs)

\* faulty variant: the repeating names are served round by round, one
\* variable for each name in every round
RECURSIVE Rounds(_, _, _, _, _)
Rounds(cursors, r, maxRepetitions, valueMap, sortedOIDs) ==
    IF r >= maxRepetitions \/ cursors = <<>> THEN <<>>
    ELSE LET round == [j \in 1..Len(cursors) |->
                          LET next == nextOID(sortedOIDs, cursors[j]) IN
                          IF next = <<>> THEN EndOfMibView(cursors[j])
                          ELSE Lookup(valueMap, next[1])]
         IN  round \o Rounds([j \in 1..Len(cursors) |-> round[j].Name], r + 1,
                             maxRepetitions, valueMap, sortedOIDs)

Repeaters_RoundByRound(variables, i, maxRepetitions, valueMap, sortedOIDs) ==
    Rounds([j \in 1..(Len(variables) + 1 - i) |-> normalizeOID(variables[i + j - 1].Name)],
           0, maxRepetitions, valueMap, sortedOIDs)

\* the loop of handleGetBulk over the repeating variables i..len(vars)
RECURSIVE Repeaters(_, _, _, _, _)
Repeaters(variables, i, maxRepetitions, valueMap, sortedOIDs) ==
    IF i > Len(variables) THEN <<>>
    ELSE Repeat(normalizeOID(variables[i].Name), 0, maxRepetitions, valueMap, sortedOIDs)
         \o Repeaters(variables, i + 1, maxRepetitions, valueMap, sortedOIDs)

\* nonRepeaters and maxRepetitions as handleGetBulk clamps them
ClampNonRepeaters(packet) ==
    IF packet.NonRepeaters > Len(packet.Variables)
    THEN Len(packet.Variables) ELSE packet.NonRepeaters

\* faulty variant: maxRepetitions is used as received
ClampMaxRepetitions_AsReceived(packet) == packet.MaxRepetitions

ClampMaxRepetitions(packet) ==
    IF packet.MaxRepetitions <= 0 THEN 1 ELSE packet.MaxRepetitions

handleGetBulk(packet, valueMap, sortedOIDs) ==
    LET variables == packet.Variables
        nonRepeaters == ClampNonRepeaters(packet)
        maxRepetitions == ClampMaxRepetitions(packet)
    IN  [i \in 1..nonRepeaters |-> GetNextOne(variables[i], valueMap, sortedOIDs)]
        \o Repeaters(variables, nonRepeaters + 1, maxRepetitions, valueMap, sortedOIDs)

\* faulty variant: an unknown PDU type falls into the Get case
Dispatch_DefaultGet(packet, snap) ==
    CASE packet.PDUType = "GetNextRequest" ->
            <<"NoError", handleGetNext(packet.Variables, snap.values, snap.oids)>>
      [] packet.PDUType = "GetBulkRequest" ->
            <<"NoError", handleGetBulk(packet, snap.values, snap.oids)>>
      [] OTHER -> <<"NoError", handleGet(packet.Variables, snap.values)>>

\* the switch of handleRequest on the PDU type: <<Error, Variables>>
Dispatch(packet, snap) ==
    CASE packet.PDUType = "GetRequest" ->
            <<"NoError", handleGet(packet.Variables, snap.values)>>
      [] packet.PDUType = "GetNextRequest" ->
            <<"NoError", handleGetNext(packet.Variables, snap.values, snap.oids)>>
      [] packet.PDUType = "GetBulkRequest" ->
            <<"NoError", handleGetBulk(packet, snap.values, snap.oids)>>
      [] OTHER -> <<"GenErr", packet.Variables>>

\* faulty variant: a request without community passes the community check
Accepted_EmptyCommunity(dgram) ==
    /\ dgram.decode = "ok"
    /\ dgram.packet.Version \in {"Version2c", "Version1"}
    /\ dgram.packet.Community \in {config.Community, ""}

\* faulty variant: the version check is missing
Accepted_AnyVersion(dgram) ==
    /\ dgram.decode = "ok"
    /\ dgram.packet.Community = config.Community

\* the checks of handleRequest before the snapshot is built: decode error,
\* nil packet, version, community
Accepted(dgram) ==
    /\ dgram.decode = "ok"
    /\ dgram.packet.Version \in {"Version2c", "Version1"}
    /\ dgram.packet.Community = config.Community

\* faulty variant: the response carries an id of its own
Response_OwnRequestID(packet, snap) ==
    LET res == Dispatch(packet, snap) IN
    [Version |-> packet.Version, Community |-> packet.Community,
     PDUType |-> "GetResponse", RequestID |-> packet.RequestID + 1,
     MsgID |-> packet.MsgID, NonRepeaters |-> packet.NonRepeaters,
     MaxRepetitions |-> packet.MaxRepetitions,
     Error |-> res[1], Variables |-> res[2]]

\* the response handleRequest marshals and sends
Response(packet, snap) ==
    LET res == Dispatch(packet, snap) IN
    [Version |-> packet.Version, Community |-> packet.Community,
     PDUType |-> "GetResponse", RequestID |-> packet.RequestID,
     MsgID |-> packet.MsgID, NonRepeaters |-> packet.NonRepeaters,
     MaxRepetitions |-> packet.MaxRepetitions,
     Error |-> res[1], Variables |-> res[2]]

\* SNMPOutput.handleRequest for one datagram; snap is what buildOIDSnapshot
\* returns at this moment, read only when the datagram passes the checks.
\* The listener is bound and MarshalMsg succeeds on the responses built here.
handleRequest(dgram, snap) ==
    /\ request' = dgram
    /\ IF Accepted(dgram)
       THEN /\ snapshot' = <<snap>>
            /\ reply' = <<[to |-> dgram.remote, packet |-> Response(dgram.packet, snap)]>>
       ELSE /\ snapshot' = <<>>
            /\ reply' = <<>>
    /\ UNCHANGED storeVars

----------------
(* Inputs *)

\* the sites the collaborator tests; the second has no name and is keyed by
\* its URL, which is the name of the first
Sites ==
    { [Name |-> "a.example", URL |-> "https://a.example"],
      [Name |-> "", URL |-> "a.example"],
      [Name |-> "b.example", URL |-> "https://b.example"] }

Durations == {150, 320}

\* the records the collaborator can hand to Write next; the clock ticks once
\* per completed test
Results ==
    { [Timestamp |-> T0 + Len(written), Site |-> s,
       Status |-> [Success |-> ok], Timings |-> [TotalDurationMs |-> d]] :
      s \in Sites, ok \in BOOLEAN, d \in Durations }

\* the records written while requests are served: named sites, a success
\* taking 150 ms or a failure taking 320 ms
ServingResults ==
    { r \in Results : /\ r.Site.Name # ""
                      /\ r.Timings.TotalDurationMs = IF r.Status.Success THEN 150 ELSE 320 }

\* the uptimes (seconds) a snapshot reads
Uptimes == {0, 1}

\* configured EnterpriseOID strings: ".1.3", "1.3." and ""
EnterpriseOIDs == { <<Empty, 1, 3>>, <<1, 3, Empty>>, <<Empty>> }

\* a variable binding of a request: a name with a Null value
VarBind(oid) == [Name |-> oid, Type |-> "Null", Value |-> NilValue]

\* a variable binding of a Set request: a name with the value to store
SetBind(oid) == [Name |-> oid, Type |-> "Integer", Value |-> UintValue(42)]

\* Names arrive decoded from the wire: a leading dot and numerals, no
\* trailing dot.  The poller asks around the agent's tree: before the base,
\* the base, scalars, a gap, site fields, absent leaves, past the tree.
Probes ==
    { <<Empty, 1, 2>>, <<Empty, 1, 4>> }
    \cup { Base \o suffix : suffix \in { <<>>, <<1, 0>>, <<1, 0, 1>>, <<4>>, <<5, 1, 9>>,
                                         <<5, 1, 10>>, <<5, 2, 10>>, <<99, 0>> } }

\* the names asked for together with others in one request
PairProbes == { Base \o suffix : suffix \in { <<1, 0>>, <<5, 1, 10>>, <<99, 0>> } }

VarLists ==
    { <<>> } \cup { <<VarBind(a)>> : a \in Probes }
    \cup { <<VarBind(a), VarBind(b)>> : a \in PairProbes, b \in PairProbes }

\* the names a bulk walk starts from
BulkProbes == { Base \o suffix : suffix \in { <<>>, <<5, 1, 8>>, <<5, 2, 9>> } }

BulkVarLists ==
    { <<>> } \cup { <<VarBind(a)>> : a \in BulkProbes }
    \cup { <<VarBind(Base \o <<5, 1, 8>>), VarBind(Base)>>,
           <<VarBind(Base \o <<5, 2, 9>>), VarBind(Base \o <<5, 1, 8>>)>>,
           <<VarBind(Base), VarBind(Base \o <<5, 2, 9>>)>>,
           <<VarBind(Base \o <<3, 0>>), VarBind(Base \o <<5, 1, 9>>), VarBind(Base)>> }

Packet(version, community, type, nr, mr, variables) ==
    [Version |-> version, Community |-> community, PDUType |-> type,
     RequestID |-> 1, MsgID |-> 0, NonRepeaters |-> nr, MaxRepetitions |-> mr,
     Variables |-> variables]

\* a datagram that decodes to the given packet
Datagram(remote, packet) == [remote |-> remote, decode |-> "ok", packet |-> packet]

\* a datagram SnmpDecodePacket rejects ("error") or yields no packet for ("nil")
Undecodable(remote, outcome) ==
    [remote |-> remote, decode |-> outcome,
     packet |-> Packet("Version2c", "public", "GetRequest", 0, 0, <<>>)]

GetDatagrams ==
    { Datagram("10.0.0.1", Packet(v, "public", "GetRequest", 0, 0, vl)) :
      v \in {"Version1", "Version2c"}, vl \in VarLists }

GetNextDatagrams ==
    { Datagram("10.0.0.1", Packet(v, "public", "GetNextRequest", 0, 0, vl)) :
      v \in {"Version1", "Version2c"}, vl \in VarLists }

GetBulkDatagrams ==
    { Datagram("10.0.0.1", Packet("Version2c", "public", "GetBulkRequest", nr, mr, vl)) :
      nr \in 0..2, mr \in 0..3, vl \in BulkVarLists }

\* the first request of a walk: GetNext at the base
WalkStartDatagrams ==
    { Datagram("10.0.0.1", Packet("Version2c", "public", "GetNextRequest", 0, 0,
                                  <<VarBind(Base)>>)) }

\* datagrams of every kind: undecodable, any version, any community, any type
AnyDatagrams ==
    { Undecodable(r, o) : r \in {"10.0.0.1", "10.0.0.2"}, o \in {"error", "nil"} }
    \cup { Datagram(r, Packet(v, c, t, 0, 1, vl)) :
           r \in {"10.0.0.1", "10.0.0.2"},
           v \in {"Version1", "Version2c", "Version3"},
           c \in {"public", "private", ""},
           t \in {"GetRequest", "GetNextRequest", "GetBulkRequest", "SetRequest",
                  "InformRequest"},
           vl \in { <<VarBind(Base \o <<1, 0>>)>>,
                    <<SetBind(Base \o <<5, 1, 2>>), SetBind(Base \o <<99, 0>>)>> } }

NoRequest == [decode |-> "none"]

\* no walk has begun: state, the name the walk began at, the name asked
\* next, the names returned so far, the names of the table when the walk
\* began, and the names (with the site name, where one is stored) of the
\* snapshots of the last request and of the request before it
IdleWalk ==
    [state |-> "idle", start |-> <<Empty>>, cursor |-> <<Empty>>, names |-> <<>>,
     first |-> {}, before |-> <<>>, last |-> <<>>]

\* the goroutines that call the methods of the handle
Clients == {"c1", "c2"}

Procs == {"main", "agent"} \cup Clients

\* s.mu with no holder
FreeMutex == [writer |-> "", readers |-> {}]

\* no call has returned
NoReturn == [call |-> "", err |-> "nil", data |-> <<>>]

\* the port the system picks for a listener configured with port 0
EphemeralPort == 40000

\* the lifecycle once NewSNMPOutput has returned the handle: the socket is
\* bound, the read loop is in ReadFromUDP, no method is being called
Listening ==
    /\ pc = [p \in Procs |-> IF p = "main" THEN "returned"
                              ELSE IF p = "agent" THEN "read" ELSE "idle"]
    /\ mu = FreeMutex
    /\ socket = "open"
    /\ listener = "set"
    /\ actualPort = EphemeralPort
    /\ startupCh = <<>>
    /\ wg = 1
    /\ doneCloses = 0
    /\ listenerCloses = 0
    /\ closeOnce = "fresh"
    /\ closeReturned = FALSE
    /\ ret = [p \in Procs |-> IF p = "main"
                               THEN [call |-> "NewSNMPOutput", err |-> "nil", data |-> <<"handle">>]
                               ELSE NoReturn]
    /\ local = [p \in Procs |-> <<>>]
    /\ response = <<>>
    /\ previous = "off"

\* the state NewSNMPOutput leaves
Init ==
    /\ config \in [EnterpriseOID : EnterpriseOIDs, Community : {"public"}]
    /\ cache = <<>>
    /\ stats = <<>>
    /\ siteIndex = <<>>
    /\ nextSiteIndex = 0
    /\ written = <<>>
    /\ firstSeen = <<>>
    /\ request = NoRequest
    /\ snapshot = <<>>
    /\ reply = <<>>
    /\ input = <<>>
    /\ NoObjects
    /\ output = <<>>
    /\ walk = IdleWalk
    /\ Listening

\* a completed test is written, no request is served
WriteResult ==
    /\ Len(written) < MaxWrites
    /\ \E result \in Results : Write(result)
    /\ UNCHANGED <<request, snapshot, reply, sideVars>>

\* the read loop is blocked in ReadFromUDP: no datagram is being handled
Reading == request.decode = "none"

\* a completed test is written while the read loop waits for a datagram (a
\* request is handled in one step, so a Write falls before or after it)
WriteServing ==
    /\ Reading
    /\ Len(written) < MaxServingWrites
    /\ \E result \in ServingResults : Write(result)
    /\ UNCHANGED <<request, snapshot, reply, sideVars>>

\* the read loop receives one datagram of the given set and handles it
Serve(datagrams) ==
    /\ Reading
    /\ \E uptime \in Uptimes :
         \E snap \in {buildOIDSnapshot(uptime)} :
            \E dgram \in datagrams : handleRequest(dgram, snap)
    /\ UNCHANGED sideVars

ServeGet == Serve(GetDatagrams)

ServeGetNext == Serve(GetNextDatagrams)

ServeGetBulk == Serve(GetBulkDatagrams)

ServeAny == Serve(AnyDatagrams)

ServeWalkStart == Serve(WalkStartDatagrams)

\* handleRequest has returned: the loop goes back to ReadFromUDP, the packet,
\* the snapshot and the response of the call are dropped
LoopBack ==
    /\ ~Reading
    /\ request' = NoRequest
    /\ snapshot' = <<>>
    /\ reply' = <<>>
    /\ UNCHANGED <<storeVars, sideVars>>

NextStore == WriteResult

SpecStore == Init /\ [][NextStore]_vars

NextGet == WriteServing \/ ServeGet \/ LoopBack

SpecGet == Init /\ [][NextGet]_vars

NextGetNext == WriteServing \/ ServeGetNext \/ LoopBack

SpecGetNext == Init /\ [][NextGetNext]_vars

NextGetBulk == WriteServing \/ ServeGetBulk \/ LoopBack

SpecGetBulk == Init /\ [][NextGetBulk]_vars

NextDispatch == WriteServing \/ ServeAny \/ LoopBack

SpecDispatch == Init /\ [][NextDispatch]_vars

NextSnapshot == WriteServing \/ ServeWalkStart \/ LoopBack

SpecSnapshot == Init /\ [][NextSnapshot]_vars

Next ==
    \/ WriteServing
    \/ ServeGet
    \/ ServeGetNext
    \/ ServeGetBulk
    \/ ServeAny
    \/ LoopBack

Spec == Init /\ [][Next]_vars

----------------------------------------------------------------------------
(* A poller walks the tree: GetNext at a start name, then GetNext at each *)
(* name returned, until the reply is the end-of-tree marker               *)

\* the names a walk begins at: the base, and names before it
WalkStarts == { Base, <<Empty, 1>>, <<Empty, 1, 2>> }

\* the GetNext request of the poller for one name
WalkRequest(oid) ==
    Datagram("10.0.0.1", Packet("Version2c", "public", "GetNextRequest", 0, 0, <<VarBind(oid)>>))

\* the names of a value map, each with the site name when it holds one
NamesOf(values) ==
    [a \in DOMAIN values |->
        IF values[a].Type = "OctetString" THEN <<values[a].Value.text>> ELSE <<>>]

\* the poller begins a walk
WalkBegin ==
    /\ Reading
    /\ walk.state = "idle"
    /\ \E start \in WalkStarts :
          walk' = [walk EXCEPT !.state = "walking", !.start = start, !.cursor = start,
                               !.names = <<>>,
                               !.first = DOMAIN buildOIDSnapshot(0).values]
    /\ UNCHANGED <<storeVars, request, snapshot, reply, input, heapVars, output, lifeVars>>

\* the poller sends GetNext for its cursor; the read loop handles it; the
\* poller moves its cursor to the name returned or stops at the marker
WalkStep ==
    /\ Reading
    /\ walk.state = "walking"
    /\ \E uptime \in Uptimes :
         \E snap \in {buildOIDSnapshot(uptime)} :
            /\ handleRequest(WalkRequest(walk.cursor), snap)
            /\ \E pdu \in {Response(WalkRequest(walk.cursor).packet, snap).Variables[1]} :
                  walk' = IF pdu.Type = "EndOfMibView"
                          THEN [walk EXCEPT !.state = "ended", !.before = walk.last,
                                            !.last = NamesOf(snap.values)]
                          ELSE [walk EXCEPT !.cursor = pdu.Name,
                                            !.names = Append(@, pdu.Name),
                                            !.before = walk.last,
                                            !.last = NamesOf(snap.values)]
    /\ UNCHANGED <<input, heapVars, output, lifeVars>>

\* successful tests of the named sites, the records written around a walk
\* (the names of a table depend on the sites written, not on the outcomes)
\* and by concurrent callers
SuccessResults == { r \in ServingResults : r.Status.Success }

\* a completed test is written while the read loop waits for a datagram
WriteWalking ==
    /\ Reading
    /\ Len(written) < MaxServingWrites
    /\ \E result \in SuccessResults : Write(result)
    /\ UNCHANGED <<request, snapshot, reply, sideVars>>

\* a completed test is written while no walk is under way
WriteBeforeWalk ==
    /\ walk.state = "idle"
    /\ WriteWalking

NextWalk == WriteBeforeWalk \/ WalkBegin \/ WalkStep \/ LoopBack

\* the poller sends its next request and the read loop returns to its read:
\* weak fairness of LoopBack and of WalkStep.  WalkStep is enabled exactly
\* when the loop reads and a walk is under way, and its fairness is written
\* out with that condition, []<>~enabled \/ []<><<WalkStep>>_vars
WalkFairness ==
    /\ WF_vars(LoopBack)
    /\ ([]<>~(Reading /\ walk.state = "walking") \/ []<><<WalkStep>>_vars)

SpecWalk == Init /\ [][NextWalk]_vars /\ WalkFairness

NextWalkWrites == WriteWalking \/ WalkBegin \/ WalkStep \/ LoopBack

SpecWalkWrites == Init /\ [][NextWalkWrites]_vars

----------------------------------------------------------------------------
(* TestSNMPAgentRespondsToGetAndWalk: a fresh agent under .1.3.6.1.4.1.55555, *)
(* a success of 150 ms and then a failure of 320 ms for example.com, then a   *)
(* Get, a walk, a Get of a missing name and a GetNext past the last entry.    *)

\* cfg of the test
ScenarioConfig ==
    [EnterpriseOID |-> <<Empty, 1, 3, 6, 1, 4, 1, 55555>>, Community |-> "public"]

ExampleSite == [Name |-> "example.com", URL |-> "https://example.com"]

\* resultSuccess, stamped now, and resultFailure, stamped half a second
\* later: in the same second or in the next
ScenarioRecords ==
    { <<[Timestamp |-> T0, Site |-> ExampleSite, Status |-> [Success |-> TRUE],
         Timings |-> [TotalDurationMs |-> 150]],
        [Timestamp |-> T0 + later, Site |-> ExampleSite, Status |-> [Success |-> FALSE],
         Timings |-> [TotalDurationMs |-> 320]]>> : later \in {0, 1} }

\* the requests of the test other than those of the walk
ScenarioDatagrams ==
    { Datagram("10.0.0.1", Packet("Version2c", "public", "GetRequest", 0, 0,
                                  <<VarBind(Base \o <<1, 0>>)>>)),
      Datagram("10.0.0.1", Packet("Version2c", "public", "GetRequest", 0, 0,
                                  <<VarBind(Base \o <<99, 0>>)>>)),
      Datagram("10.0.0.1", Packet("Version2c", "public", "GetNextRequest", 0, 0,
                                  <<VarBind(Base \o <<5, 1, 10>>)>>)) }

InitScenario ==
    /\ config = ScenarioConfig
    /\ cache = <<>>
    /\ stats = <<>>
    /\ siteIndex = <<>>
    /\ nextSiteIndex = 0
    /\ written = <<>>
    /\ firstSeen = <<>>
    /\ request = NoRequest
    /\ snapshot = <<>>
    /\ reply = <<>>
    /\ input = <<>>
    /\ NoObjects
    /\ output = <<>>
    /\ walk = IdleWalk
    /\ Listening

\* the test writes its next record
ScenarioWrite ==
    /\ Len(written) < 2
    /\ \E records \in ScenarioRecords :
          /\ SubSeq(records, 1, Len(written)) = written
          /\ Write(records[Len(written) + 1])
    /\ UNCHANGED <<request, snapshot, reply, sideVars>>

\* both records are written
ScenarioWritten == Len(written) = 2

\* client.Get and client.GetNext of the test
ScenarioServe == ScenarioWritten /\ Serve(ScenarioDatagrams)

\* client.Walk of the test
ScenarioWalkBegin == ScenarioWritten /\ WalkBegin

NextScenario ==
    \/ ScenarioWrite
    \/ ScenarioServe
    \/ ScenarioWalkBegin
    \/ WalkStep
    \/ LoopBack

SpecScenario == InitScenario /\ [][NextScenario]_vars

----------------------------------------------------------------------------
(* Pointers: what the store keeps and what its callers are handed *)

\* the objects on the heap at once
MaxCells == 6

\* a *models.TestResult and a *siteStats point at an object of their type
ResultCell(result) == [kind |-> "result", v |-> result]

StatsCell(st) == [kind |-> "stats", v |-> st]

\* the values behind a slice or a map of pointers
Pointees(refs, h) == [k \in DOMAIN refs |-> h[refs[k]].v]

\* the members of a set in some order
RECURSIVE SeqOf(_)
SeqOf(S) ==
    IF S = {} THEN <<>>
    ELSE LET x == CHOOSE y \in S : TRUE IN <<x>> \o SeqOf(S \ {x})

\* faulty variant: the pointers of the store are handed out
Copied_Shared(h, refs) == [heap |-> h, refs |-> refs]

\* statsCopy := *st for every pointer of refs: each gets a new object with
\* the value of the old one
Copied(h, refs) ==
    LET keys == SeqOf(DOMAIN refs) IN
    [heap |-> h \o [i \in 1..Len(keys) |-> h[refs[keys[i]]]],
     refs |-> [k \in DOMAIN refs |->
                  Len(h) + (CHOOSE i \in 1..Len(keys) : keys[i] = k)]]

\* what a caller can do to an object it holds a pointer to: a record's
\* outcome is flipped, an aggregate's last duration is cleared
Scribbled(cell) ==
    IF cell.kind = "result"
    THEN [cell EXCEPT !.v.Status.Success = ~@]
    ELSE [cell EXCEPT !.v.LastDurationMs = 0]

\* the requests a poller sends meanwhile
AliasDatagrams ==
    { Datagram("10.0.0.1", Packet("Version2c", "public", "GetRequest", 0, 0,
                                  <<VarBind(Base \o <<1, 0>>), VarBind(Base \o <<5, 1, 2>>),
                                    VarBind(Base \o <<5, 2, 2>>)>>)),
      Datagram("10.0.0.1", Packet("Version2c", "public", "GetNextRequest", 0, 0,
                                  <<VarBind(Base), VarBind(Base \o <<5, 1, 10>>)>>)) }

InitAlias ==
    /\ config = [EnterpriseOID |-> <<Empty, 1, 3>>, Community |-> "public"]
    /\ cache = <<>>
    /\ stats = <<>>
    /\ siteIndex = <<>>
    /\ nextSiteIndex = 0
    /\ written = <<>>
    /\ firstSeen = <<>>
    /\ request = NoRequest
    /\ snapshot = <<>>
    /\ reply = <<>>
    /\ input = <<>>
    /\ NoObjects
    /\ output = <<>>
    /\ walk = IdleWalk
    /\ Listening

\* a caller builds a record and passes its address to Write, which appends
\* that address to s.cache and updates (or creates) the site's siteStats in
\* place; the caller keeps the address or drops it
CallerWrite ==
    /\ Len(written) < MaxServingWrites
    /\ Len(heap) + 2 <= MaxCells
    /\ \E result \in ServingResults, keep \in BOOLEAN :
         LET id == Len(heap) + 1
             siteName == SiteKey(result)
             exists == siteName \in DOMAIN statsRefs
             h1 == Append(heap, ResultCell(result))
         IN  /\ Write(result)
             /\ cacheRefs' = AppendToCache(cacheRefs, id)
             /\ statsRefs' = IF exists THEN statsRefs ELSE MapSet(statsRefs, siteName, id + 1)
             /\ heap' = IF exists
                        THEN [h1 EXCEPT ![statsRefs[siteName]] = StatsCell(stats'[siteName])]
                        ELSE Append(h1, StatsCell(stats'[siteName]))
             /\ held' = IF keep THEN held \cup {id} ELSE held
    /\ UNCHANGED <<request, snapshot, reply, input, output, walk, lifeVars>>

\* GetCachedResults: a new slice with the addresses s.cache holds
CallerGetCachedResults ==
    /\ held' = held \cup Range(cacheRefs)
    /\ UNCHANGED <<storeVars, request, snapshot, reply, input, heap, cacheRefs, statsRefs,
                   output, walk, lifeVars>>

\* GetSiteStats of a site that exists: the address of a copy of its siteStats
CallerGetSiteStats ==
    /\ Len(heap) + 1 <= MaxCells
    /\ \E siteName \in DOMAIN statsRefs :
         LET copy == Copied(heap, [n \in {siteName} |-> statsRefs[n]]) IN
         /\ heap' = copy.heap
         /\ held' = held \cup Range(copy.refs)
    /\ UNCHANGED <<storeVars, request, snapshot, reply, input, cacheRefs, statsRefs,
                   output, walk, lifeVars>>

\* GetAllStats: a new map with the address of a copy for every site
CallerGetAllStats ==
    /\ statsRefs # <<>>
    /\ Len(heap) + Cardinality(DOMAIN statsRefs) <= MaxCells
    /\ LET copy == Copied(heap, statsRefs) IN
         /\ heap' = copy.heap
         /\ held' = held \cup Range(copy.refs)
    /\ UNCHANGED <<storeVars, request, snapshot, reply, input, cacheRefs, statsRefs,
                   output, walk, lifeVars>>

\* a caller writes to an object it holds the address of; s.cache and s.stats
\* hold what their pointers point at
CallerScribble ==
    /\ \E id \in held :
         /\ heap' = [heap EXCEPT ![id] = Scribbled(@)]
         /\ heap' # heap
    /\ cache' = Pointees(cacheRefs, heap')
    /\ stats' = Pointees(statsRefs, heap')
    /\ UNCHANGED <<config, siteIndex, nextSiteIndex, written, firstSeen, request, snapshot,
                   reply, input, cacheRefs, statsRefs, held, output, walk, lifeVars>>

\* handleRequest up to the return of buildOIDSnapshot, for a datagram that
\* passes the checks
AliasSnapshot ==
    /\ Reading
    /\ \E dgram \in AliasDatagrams, uptime \in Uptimes :
         /\ request' = dgram
         /\ snapshot' = <<buildOIDSnapshot(uptime)>>
    /\ UNCHANGED <<storeVars, reply, sideVars>>

\* the rest of handleRequest: the response is built from the snapshot and sent
AliasDispatch ==
    /\ snapshot # <<>>
    /\ reply = <<>>
    /\ reply' = <<[to |-> request.remote, packet |-> Response(request.packet, snapshot[1])]>>
    /\ UNCHANGED <<storeVars, request, snapshot, sideVars>>

NextAlias ==
    \/ CallerWrite
    \/ CallerGetCachedResults
    \/ CallerGetSiteStats
    \/ CallerGetAllStats
    \/ CallerScribble
    \/ AliasSnapshot
    \/ AliasDispatch
    \/ LoopBack

SpecAlias == InitAlias /\ [][NextAlias]_vars

----------------------------------------------------------------------------
(* Counts beyond 32 bits: the conversions of buildOIDSnapshot on int64 values *)

\* an int64 that is not negative is written as four digits to this base, the
\* lowest first; a uint32 as two
Limb == 65536

\* how many tests are counted on top of the counts a run starts with
MaxCounts == 2

\* the int64 of a small number
Wide(n) == <<n % Limb, (n \div Limb) % Limb, 0, 0>>

\* a + b on int64: digit by digit with the carry, which leaves at the top
RECURSIVE AddFrom(_, _, _, _)
AddFrom(a, b, i, carry) ==
    IF i > Len(a) THEN <<>>
    ELSE LET sum == a[i] + b[i] + carry IN
         <<sum % Limb>> \o AddFrom(a, b, i + 1, sum \div Limb)

Add64(a, b) == AddFrom(a, b, 1, 0)

\* st.TotalTests++ and its like
Inc64(a) == Add64(a, Wide(1))

\* faulty variant: a count that does not fit is exposed as the largest uint32
uint32Of_Saturating(a) ==
    IF a[3] # 0 \/ a[4] # 0 THEN <<Limb - 1, Limb - 1>> ELSE SubSeq(a, 1, 2)

\* uint32(v) of an int64 v: the conversion keeps the low-order 32 bits
uint32Of(a) == SubSeq(a, 1, 2)

\* counts and durations around the ends of the 16-, 32- and 48-bit ranges
WideSamples ==
    { <<0, 0, 0, 0>>, <<Limb - 1, 0, 0, 0>>, <<Limb - 2, Limb - 1, 0, 0>>,
      <<Limb - 1, Limb - 1, 0, 0>>, <<0, 0, 1, 0>>, <<Limb - 1, Limb - 1, Limb - 1, 0>> }

\* the aggregates of one site after a long run, and no values exposed yet
InitCounter ==
    /\ config = [EnterpriseOID |-> <<Empty, 1, 3>>, Community |-> "public"]
    /\ cache = <<>>
    /\ stats = <<>>
    /\ siteIndex = <<>>
    /\ nextSiteIndex = 0
    /\ written = <<>>
    /\ firstSeen = <<>>
    /\ request = NoRequest
    /\ snapshot = <<>>
    /\ reply = <<>>
    /\ \E ok \in WideSamples, failed \in WideSamples, last \in WideSamples :
          input = [TotalTests |-> Add64(ok, failed), SuccessfulTests |-> ok,
                   FailedTests |-> failed, LastDurationMs |-> last, counted |-> 0]
    /\ NoObjects
    /\ output = <<>>
    /\ walk = IdleWalk
    /\ Listening

\* the counting of Write for one more test of the site
CountTest ==
    /\ input.counted < MaxCounts
    /\ \E ok \in BOOLEAN, d \in Durations :
         input' = [TotalTests |-> Inc64(input.TotalTests),
                   SuccessfulTests |-> IF ok THEN Inc64(input.SuccessfulTests)
                                       ELSE input.SuccessfulTests,
                   FailedTests |-> IF ok THEN input.FailedTests
                                   ELSE Inc64(input.FailedTests),
                   LastDurationMs |-> Wide(d),
                   counted |-> input.counted + 1]
    /\ output' = <<>>
    /\ UNCHANGED <<storeVars, request, snapshot, reply, heapVars, walk, lifeVars>>

\* the values buildOIDSnapshot puts under fields 2, 3, 4 and 7 of the site
ExposeCounters ==
    /\ output = <<>>
    /\ output' = [total |-> uint32Of(input.TotalTests),
                  success |-> uint32Of(input.SuccessfulTests),
                  failure |-> uint32Of(input.FailedTests),
                  last |-> uint32Of(input.LastDurationMs)]
    /\ UNCHANGED <<storeVars, request, snapshot, reply, input, heapVars, walk, lifeVars>>

NextCounter == CountTest \/ ExposeCounters

SpecCounter == InitCounter /\ [][NextCounter]_vars

----------------------------------------------------------------------------
(* compareOIDs applied to three addresses *)

\* the arcs of the addresses compared
ArcValues == {0, 2, 10}

\* addresses of one to MaxArcs arcs, written with a leading dot
Addresses == UNION { { <<Empty>> \o arcs : arcs \in [1..n -> ArcValues] } : n \in 1..MaxArcs }

InitCompare ==
    /\ config = [EnterpriseOID |-> <<Empty>>, Community |-> "public"]
    /\ cache = <<>>
    /\ stats = <<>>
    /\ siteIndex = <<>>
    /\ nextSiteIndex = 0
    /\ written = <<>>
    /\ firstSeen = <<>>
    /\ request = NoRequest
    /\ snapshot = <<>>
    /\ reply = <<>>
    /\ input \in Addresses \X Addresses \X Addresses
    /\ NoObjects
    /\ output = <<>>
    /\ walk = IdleWalk
    /\ Listening

\* compareOIDs is called on the pairs of the three addresses
Compare ==
    /\ output = <<>>
    /\ output' = [ab |-> compareOIDs(input[1], input[2]),
                  ba |-> compareOIDs(input[2], input[1]),
                  bc |-> compareOIDs(input[2], input[3]),
                  ac |-> compareOIDs(input[1], input[3])]
    /\ UNCHANGED <<storeVars, request, snapshot, reply, input, heapVars, walk, lifeVars>>

NextCompare == Compare

SpecCompare == InitCompare /\ [][NextCompare]_vars

----------------------------------------------------------------------------
(* The lifecycle: NewSNMPOutput starts runSNMPAgent and waits for its      *)
(* startup signal; the read loop handles one datagram at a time; other     *)
(* goroutines call Write, the accessors and Close on the handle.  A step   *)
(* is what one goroutine does between two points where another can run    *)
(* and be seen: taking or releasing s.mu, a channel operation, a socket    *)
(* operation.                                                               *)

\* sync.RWMutex.  Lock first shuts out other writers and new readers
\* (CanAnnounce, Announce), then waits for the readers inside to leave
\* (CanLock); RLock waits while a writer holds or awaits the lock
CanAnnounce(m) == m.writer = ""

Announce(m, p) == [m EXCEPT !.writer = p]

\* faulty variant: Lock does not wait for the readers inside
CanLock_Free(m, p) == TRUE

CanLock(m, p) == m.writer = p /\ m.readers = {}

Unlock(m, p) == [m EXCEPT !.writer = ""]

\* faulty variant: RLock does not wait for a writer
CanRLock_Free(m, p) == TRUE

CanRLock(m, p) == m.writer = ""

RLock(m, p) == [m EXCEPT !.readers = @ \cup {p}]

\* faulty variant: the read lock is kept
RUnlock_Kept(m, p) == m

RUnlock(m, p) == [m EXCEPT !.readers = @ \ {p}]

\* goroutine p moves to loc
Goto(p, loc) == pc' = [pc EXCEPT ![p] = loc]

\* select { case s.startupCh <- v: default: }
signalStartup(ch, v) == IF Len(ch) < 1 THEN Append(ch, v) ELSE ch

\* faulty variant: waitForStartup takes every signal for readiness
StartupError_None(v) == "nil"

\* the error waitForStartup returns for the value received from startupCh
StartupError(v) == IF v # "nil" THEN "failed to start SNMP agent: " \o v ELSE "nil"

\* faulty variant: the second Close runs the function again
OnceFresh_Always(o) == TRUE

\* sync.Once.Do runs its function when no call has run it
OnceFresh(o) == o = "fresh"

\* faulty variant: Close does not wait for the goroutine
WaitDone_NoWait(w) == TRUE

\* sync.WaitGroup.Wait returns when the counter is zero
WaitDone(w) == w = 0

\* faulty variant: Close keeps s.mu locked after closing the listener
CloseRelease_Held(m, p) == m

\* s.mu.Unlock() at the end of the function Close runs once
CloseRelease(m, p) == Unlock(m, p)

\* faulty variant: runSNMPAgent returns when handleRequest drops a datagram
AfterChecks_Exit(dgram) == IF Accepted(dgram) THEN "snapRLock" ELSE "exited"

\* where the read loop goes after the checks of handleRequest: on to the
\* snapshot, or out of handleRequest and round the loop
AfterChecks(dgram) == IF Accepted(dgram) THEN "snapRLock" ELSE "select"

\* the datagrams that reach the socket, by kind
LifeDatagrams ==
    [malformed |-> Undecodable("10.0.0.1", "error"),
     version |-> Datagram("10.0.0.1", Packet("Version3", "public", "GetRequest", 0, 0,
                                             <<VarBind(Base \o <<1, 0>>)>>)),
     community |-> Datagram("10.0.0.1", Packet("Version2c", "private", "GetRequest", 0, 0,
                                               <<VarBind(Base \o <<1, 0>>)>>)),
     type |-> Datagram("10.0.0.1", Packet("Version2c", "public", "SetRequest", 0, 0,
                                          <<SetBind(Base \o <<1, 0>>)>>)),
     absent |-> Datagram("10.0.0.1", Packet("Version2c", "public", "GetRequest", 0, 0,
                                            <<VarBind(Base \o <<99, 0>>)>>)),
     valid |-> Datagram("10.0.0.2", Packet("Version2c", "public", "GetNextRequest", 0, 0,
                                           <<VarBind(Base)>>))]

\* the kind of a datagram of LifeDatagrams
KindOf(dgram) == CHOOSE k \in DOMAIN LifeDatagrams : LifeDatagrams[k] = dgram

\* the goroutines that call the accessors
Readers == {"c1"}

\* the uptime (seconds) at which the handle is read
AgentUptimes == {1}

\* the accessors of the handle
Accessors == {"Port", "GetAllStats", "GetCachedResults", "GetSNMPData"}

\* faulty variant: Port returns the configured port
AccessorValue_ConfiguredPort(name, uptime) ==
    CASE name = "Port" -> [port |-> config.Port]
      [] name = "GetAllStats" -> [stats |-> stats]
      [] name = "GetCachedResults" -> [results |-> cache]
      [] OTHER -> [cache_size |-> Len(cache), cache_max_size |-> maxSize,
                   monitored_sites |-> Cardinality(DOMAIN siteIndex),
                   uptime_seconds |-> uptime, sites |-> <<>>]

\* what an accessor returns at the given uptime
AccessorValue(name, uptime) ==
    CASE name = "Port" ->
            [port |-> IF actualPort # 0 THEN actualPort ELSE config.Port]
      [] name = "GetAllStats" -> [stats |-> stats]
      [] name = "GetCachedResults" -> [results |-> cache]
      [] OTHER ->
            [cache_size |-> Len(cache), cache_max_size |-> maxSize,
             monitored_sites |-> Cardinality(DOMAIN siteIndex),
             uptime_seconds |-> uptime,
             sites |-> [n \in DOMAIN stats |->
                          [total_tests |-> stats[n].TotalTests,
                           successful_tests |-> stats[n].SuccessfulTests,
                           failed_tests |-> stats[n].FailedTests,
                           last_success_time |-> stats[n].LastSuccessTime,
                           last_failure_time |-> stats[n].LastFailureTime,
                           last_duration_ms |-> stats[n].LastDurationMs,
                           avg_duration_ms |-> stats[n].AvgDurationMs,
                           max_duration_ms |-> stats[n].MaxDurationMs,
                           min_duration_ms |-> stats[n].MinDurationMs]]]

\* NewSNMPOutput is about to be called
InitAgent ==
    /\ config \in [EnterpriseOID : {<<Empty, 1, 3>>}, Community : {"public"},
                   Enabled : BOOLEAN, Port : {0}]
    /\ cache = <<>>
    /\ stats = <<>>
    /\ siteIndex = <<>>
    /\ nextSiteIndex = 0
    /\ written = <<>>
    /\ firstSeen = <<>>
    /\ request = NoRequest
    /\ snapshot = <<>>
    /\ reply = <<>>
    /\ input = <<>>
    /\ NoObjects
    /\ output = <<>>
    /\ walk = IdleWalk
    /\ pc = [p \in Procs |-> IF p = "main" THEN "new"
                              ELSE IF p = "agent" THEN "none" ELSE "idle"]
    /\ mu = FreeMutex
    /\ socket = "unbound"
    /\ listener = "nil"
    /\ actualPort = 0
    /\ startupCh = <<>>
    /\ wg = 0
    /\ doneCloses = 0
    /\ listenerCloses = 0
    /\ closeOnce = "fresh"
    /\ closeReturned = FALSE
    /\ ret = [p \in Procs |-> NoReturn]
    /\ local = [p \in Procs |-> <<>>]
    /\ response = <<>>
    /\ previous = "off"

\* the variables of the store, the loop and the checks of functions
dataVars == <<storeVars, request, snapshot, reply, input, heapVars, output, walk>>

(* NewSNMPOutput *)

\* a disabled agent yields no handle and no error; otherwise the handle is
\* built, s.wg.Add(1), go s.runSNMPAgent()
MainNew ==
    /\ pc["main"] = "new"
    /\ IF ~config.Enabled
       THEN /\ Goto("main", "returned")
            /\ ret' = [ret EXCEPT !["main"] =
                          [call |-> "NewSNMPOutput", err |-> "nil", data |-> <<>>]]
            /\ wg' = wg
       ELSE /\ pc' = [pc EXCEPT !["main"] = "wait", !["agent"] = "resolve"]
            /\ wg' = wg + 1
            /\ ret' = ret
    /\ UNCHANGED <<dataVars, mu, socket, listener, actualPort, startupCh, doneCloses,
                   listenerCloses, closeOnce, closeReturned, local, response, previous>>

\* waitForStartup receives from s.startupCh
MainStarted ==
    /\ pc["main"] = "wait"
    /\ startupCh # <<>>
    /\ startupCh' = Tail(startupCh)
    /\ IF StartupError(Head(startupCh)) = "nil"
       THEN /\ Goto("main", "portRLock")
            /\ ret' = ret
       ELSE /\ Goto("main", "returned")
            /\ ret' = [ret EXCEPT !["main"] =
                          [call |-> "NewSNMPOutput",
                           err |-> StartupError(Head(startupCh)), data |-> <<>>]]
    /\ UNCHANGED <<dataVars, mu, socket, listener, actualPort, wg, doneCloses,
                   listenerCloses, closeOnce, closeReturned, local, response, previous>>

\* waitForStartup: time.After(5 * time.Second) fires
MainTimeout ==
    /\ pc["main"] = "wait"
    /\ Goto("main", "returned")
    /\ ret' = [ret EXCEPT !["main"] =
                  [call |-> "NewSNMPOutput",
                   err |-> "timeout waiting for SNMP agent to start", data |-> <<>>]]
    /\ UNCHANGED <<dataVars, mu, socket, listener, actualPort, startupCh, wg, doneCloses,
                   listenerCloses, closeOnce, closeReturned, local, response, previous>>

\* s.Port() for the log line: RLock
MainPortRLock ==
    /\ pc["main"] = "portRLock"
    /\ CanRLock(mu, "main")
    /\ mu' = RLock(mu, "main")
    /\ Goto("main", "port")
    /\ UNCHANGED <<dataVars, socket, listener, actualPort, startupCh, wg, doneCloses,
                   listenerCloses, closeOnce, closeReturned, ret, local, response, previous>>

\* s.Port() returns, the log lines are written, NewSNMPOutput returns s
MainReturn ==
    /\ pc["main"] = "port"
    /\ mu' = RUnlock(mu, "main")
    /\ Goto("main", "returned")
    /\ ret' = [ret EXCEPT !["main"] =
                  [call |-> "NewSNMPOutput", err |-> "nil", data |-> <<"handle">>]]
    /\ UNCHANGED <<dataVars, socket, listener, actualPort, startupCh, wg, doneCloses,
                   listenerCloses, closeOnce, closeReturned, local, response, previous>>

(* runSNMPAgent *)

\* the goroutine returns: the deferred s.wg.Done()
AgentExit ==
    /\ Goto("agent", "exited")
    /\ wg' = wg - 1

\* net.ResolveUDPAddr
AgentResolve ==
    /\ pc["agent"] = "resolve"
    /\ \E ok \in BOOLEAN :
          IF ok
          THEN Goto("agent", "listen") /\ UNCHANGED <<startupCh, wg>>
          ELSE AgentExit /\ startupCh' = signalStartup(startupCh, "resolve UDP address")
    /\ UNCHANGED <<dataVars, mu, socket, listener, actualPort, doneCloses,
                   listenerCloses, closeOnce, closeReturned, ret, local, response, previous>>

\* net.ListenUDP
AgentListen ==
    /\ pc["agent"] = "listen"
    /\ \E ok \in BOOLEAN :
          IF ok
          THEN Goto("agent", "bindLock") /\ socket' = "open" /\ UNCHANGED <<startupCh, wg>>
          ELSE /\ AgentExit
               /\ startupCh' = signalStartup(startupCh, "listen UDP")
               /\ socket' = socket
    /\ UNCHANGED <<dataVars, mu, listener, actualPort, doneCloses,
                   listenerCloses, closeOnce, closeReturned, ret, local, response, previous>>

\* s.mu.Lock() of runSNMPAgent
AgentBindLock ==
    /\ pc["agent"] = "bindLock"
    /\ CanAnnounce(mu)
    /\ mu' = Announce(mu, "agent")
    /\ Goto("agent", "bindLockWait")
    /\ UNCHANGED <<dataVars, socket, listener, actualPort, startupCh, wg, doneCloses,
                   listenerCloses, closeOnce, closeReturned, ret, local, response, previous>>

AgentBindLocked ==
    /\ pc["agent"] = "bindLockWait"
    /\ CanLock(mu, "agent")
    /\ Goto("agent", "setListener")
    /\ UNCHANGED <<dataVars, mu, socket, listener, actualPort, startupCh, wg, doneCloses,
                   listenerCloses, closeOnce, closeReturned, ret, local, response, previous>>

\* s.listener = listener, s.actualPort, s.mu.Unlock()
AgentSetListener ==
    /\ pc["agent"] = "setListener"
    /\ listener' = "set"
    /\ actualPort' = IF config.Port = 0 THEN EphemeralPort ELSE config.Port
    /\ mu' = Unlock(mu, "agent")
    /\ Goto("agent", "ready")
    /\ UNCHANGED <<dataVars, socket, startupCh, wg, doneCloses,
                   listenerCloses, closeOnce, closeReturned, ret, local, response, previous>>

\* s.signalStartupReady()
AgentReady ==
    /\ pc["agent"] = "ready"
    /\ startupCh' = signalStartup(startupCh, "nil")
    /\ Goto("agent", "select")
    /\ UNCHANGED <<dataVars, mu, socket, listener, actualPort, wg, doneCloses,
                   listenerCloses, closeOnce, closeReturned, ret, local, response, previous>>

\* the top of the loop: the packet, snapshot and response of the last
\* handleRequest are gone; select on s.done.  (previous is a history
\* variable: unless it is "off" it keeps the kind of the last datagram
\* handled.)
AgentSelect ==
    /\ pc["agent"] = "select"
    /\ IF doneCloses > 0 THEN AgentExit ELSE Goto("agent", "read") /\ wg' = wg
    /\ request' = NoRequest
    /\ snapshot' = <<>>
    /\ reply' = <<>>
    /\ response' = <<>>
    /\ previous' = IF previous = "off" \/ request = NoRequest
                   THEN previous ELSE KindOf(request)
    /\ UNCHANGED <<storeVars, input, heapVars, output, walk, mu, socket, listener, actualPort,
                   startupCh, doneCloses, listenerCloses, closeOnce, closeReturned,
                   ret, local>>

\* ReadFromUDP returns a datagram
AgentReceive ==
    /\ pc["agent"] = "read"
    /\ socket = "open"
    /\ \E k \in DOMAIN LifeDatagrams : request' = LifeDatagrams[k]
    /\ Goto("agent", "handle")
    /\ UNCHANGED <<storeVars, snapshot, reply, input, heapVars, output, walk, mu, socket, listener,
                   actualPort, startupCh, wg, doneCloses, listenerCloses, closeOnce,
                   closeReturned, ret, local, response, previous>>

\* ReadFromUDP returns a timeout after the read deadline: continue
AgentReadTimeout ==
    /\ pc["agent"] = "read"
    /\ socket = "open"
    /\ Goto("agent", "select")
    /\ UNCHANGED <<dataVars, mu, socket, listener, actualPort, startupCh, wg, doneCloses,
                   listenerCloses, closeOnce, closeReturned, ret, local, response, previous>>

\* faulty variant: the error of the closed socket is taken for a timeout
AgentReadClosed_Continue ==
    /\ pc["agent"] = "read"
    /\ socket = "closed"
    /\ Goto("agent", "select")
    /\ UNCHANGED <<dataVars, mu, socket, listener, actualPort, startupCh, wg, doneCloses,
                   listenerCloses, closeOnce, closeReturned, ret, local, response, previous>>

\* ReadFromUDP returns net.ErrClosed: return
AgentReadClosed ==
    /\ pc["agent"] = "read"
    /\ socket = "closed"
    /\ AgentExit
    /\ UNCHANGED <<dataVars, mu, socket, listener, actualPort, startupCh, doneCloses,
                   listenerCloses, closeOnce, closeReturned, ret, local, response, previous>>

\* ReadFromUDP returns another error: return when s.done is closed,
\* otherwise log and continue
AgentReadError ==
    /\ pc["agent"] = "read"
    /\ socket = "open"
    /\ IF doneCloses > 0 THEN AgentExit ELSE Goto("agent", "select") /\ wg' = wg
    /\ UNCHANGED <<dataVars, mu, socket, listener, actualPort, startupCh, doneCloses,
                   listenerCloses, closeOnce, closeReturned, ret, local, response, previous>>

\* handleRequest: decode, nil, version and community checks
AgentCheck ==
    /\ pc["agent"] = "handle"
    /\ Goto("agent", AfterChecks(request))
    /\ UNCHANGED <<dataVars, mu, socket, listener, actualPort, startupCh, wg, doneCloses,
                   listenerCloses, closeOnce, closeReturned, ret, local, response, previous>>

\* buildOIDSnapshot: s.mu.RLock()
AgentSnapRLock ==
    /\ pc["agent"] = "snapRLock"
    /\ CanRLock(mu, "agent")
    /\ mu' = RLock(mu, "agent")
    /\ Goto("agent", "snapshot")
    /\ UNCHANGED <<dataVars, socket, listener, actualPort, startupCh, wg, doneCloses,
                   listenerCloses, closeOnce, closeReturned, ret, local, response, previous>>

\* buildOIDSnapshot builds the snapshot and returns: the deferred RUnlock
AgentSnapshot ==
    /\ pc["agent"] = "snapshot"
    /\ \E uptime \in AgentUptimes : snapshot' = <<buildOIDSnapshot(uptime)>>
    /\ mu' = RUnlock(mu, "agent")
    /\ Goto("agent", "dispatch")
    /\ UNCHANGED <<storeVars, request, reply, input, heapVars, output, walk, socket, listener,
                   actualPort, startupCh, wg, doneCloses, listenerCloses, closeOnce,
                   closeReturned, ret, local, response, previous>>

\* the response is built by the switch on the PDU type and marshalled; the
\* snapshot is not read again
AgentDispatch ==
    /\ pc["agent"] = "dispatch"
    /\ response' = <<Response(request.packet, snapshot[1])>>
    /\ snapshot' = <<>>
    /\ Goto("agent", "listenerRLock")
    /\ UNCHANGED <<storeVars, request, reply, input, heapVars, output, walk, mu, socket, listener, actualPort, startupCh, wg, doneCloses,
                   listenerCloses, closeOnce, closeReturned, ret, local, previous>>

\* s.mu.RLock() before listener := s.listener
AgentListenerRLock ==
    /\ pc["agent"] = "listenerRLock"
    /\ CanRLock(mu, "agent")
    /\ mu' = RLock(mu, "agent")
    /\ Goto("agent", "getListener")
    /\ UNCHANGED <<dataVars, socket, listener, actualPort, startupCh, wg, doneCloses,
                   listenerCloses, closeOnce, closeReturned, ret, local, response, previous>>

\* listener := s.listener, s.mu.RUnlock(); return when it is nil
AgentGetListener ==
    /\ pc["agent"] = "getListener"
    /\ mu' = RUnlock(mu, "agent")
    /\ Goto("agent", IF listener = "nil" THEN "select" ELSE "send")
    /\ UNCHANGED <<dataVars, socket, listener, actualPort, startupCh, wg, doneCloses,
                   listenerCloses, closeOnce, closeReturned, ret, local, response, previous>>

\* listener.WriteToUDP: the response leaves, or the error of a closed socket
\* is logged
AgentSend ==
    /\ pc["agent"] = "send"
    /\ reply' = IF socket = "open"
                THEN <<[to |-> request.remote, packet |-> response[1]]>>
                ELSE <<>>
    /\ Goto("agent", "select")
    /\ UNCHANGED <<storeVars, request, snapshot, input, heapVars, output, walk, mu, socket, listener,
                   actualPort, startupCh, wg, doneCloses, listenerCloses, closeOnce,
                   closeReturned, ret, local, response, previous>>

(* The callers of the handle *)

\* NewSNMPOutput has returned the handle
HandleReturned == pc["main"] = "returned" /\ ret["main"].data = <<"handle">>

\* the Write calls that have not appended yet
WritesUnderWay == Cardinality({q \in Clients : pc[q] \in {"wLock", "wLockWait", "wCache"}})

\* p calls Write(result)
ClientWrite(p) ==
    /\ pc[p] = "idle"
    /\ HandleReturned
    /\ Len(written) + WritesUnderWay < MaxServingWrites
    /\ \E result \in SuccessResults : local' = [local EXCEPT ![p] = <<result>>]
    /\ Goto(p, "wLock")
    /\ UNCHANGED <<dataVars, mu, socket, listener, actualPort, startupCh, wg, doneCloses,
                   listenerCloses, closeOnce, closeReturned, ret, response, previous>>

\* s.mu.Lock() of Write
WriteLock(p) ==
    /\ pc[p] = "wLock"
    /\ CanAnnounce(mu)
    /\ mu' = Announce(mu, p)
    /\ Goto(p, "wLockWait")
    /\ UNCHANGED <<dataVars, socket, listener, actualPort, startupCh, wg, doneCloses,
                   listenerCloses, closeOnce, closeReturned, ret, local, response, previous>>

WriteLocked(p) ==
    /\ pc[p] = "wLockWait"
    /\ CanLock(mu, p)
    /\ Goto(p, "wCache")
    /\ UNCHANGED <<dataVars, mu, socket, listener, actualPort, startupCh, wg, doneCloses,
                   listenerCloses, closeOnce, closeReturned, ret, local, response, previous>>

\* the append to s.cache
WriteAppend(p) ==
    /\ pc[p] = "wCache"
    /\ appendResult(local[p][1])
    /\ Goto(p, "wStats")
    /\ UNCHANGED <<config, stats, siteIndex, nextSiteIndex, firstSeen, request, snapshot,
                   reply, input, heapVars, output, walk, mu, socket, listener, actualPort, startupCh,
                   wg, doneCloses, listenerCloses, closeOnce, closeReturned, ret, local,
                   response, previous>>

\* the update of the aggregates, the deferred Unlock, return nil
WriteUpdate(p) ==
    /\ pc[p] = "wStats"
    /\ updateStats(local[p][1])
    /\ mu' = Unlock(mu, p)
    /\ ret' = [ret EXCEPT ![p] = [call |-> "Write", err |-> "nil", data |-> <<>>]]
    /\ local' = [local EXCEPT ![p] = <<>>]
    /\ Goto(p, "done")
    /\ UNCHANGED <<config, cache, written, request, snapshot, reply, input, heapVars, output, walk,
                   socket, listener, actualPort, startupCh, wg, doneCloses, listenerCloses,
                   closeOnce, closeReturned, response, previous>>

\* p calls an accessor
ClientRead(p) ==
    /\ pc[p] = "idle"
    /\ HandleReturned
    /\ \E name \in Accessors : local' = [local EXCEPT ![p] = <<name>>]
    /\ Goto(p, "rRLock")
    /\ UNCHANGED <<dataVars, mu, socket, listener, actualPort, startupCh, wg, doneCloses,
                   listenerCloses, closeOnce, closeReturned, ret, response, previous>>

\* s.mu.RLock() of the accessor
ReadRLock(p) ==
    /\ pc[p] = "rRLock"
    /\ CanRLock(mu, p)
    /\ mu' = RLock(mu, p)
    /\ Goto(p, "rRead")
    /\ UNCHANGED <<dataVars, socket, listener, actualPort, startupCh, wg, doneCloses,
                   listenerCloses, closeOnce, closeReturned, ret, local, response, previous>>

\* the accessor copies what it returns, the deferred RUnlock, return
ReadReturn(p) ==
    /\ pc[p] = "rRead"
    /\ \E uptime \in AgentUptimes :
          ret' = [ret EXCEPT ![p] = [call |-> local[p][1], err |-> "nil",
                                     data |-> <<AccessorValue(local[p][1], uptime)>>]]
    /\ mu' = RUnlock(mu, p)
    /\ local' = [local EXCEPT ![p] = <<>>]
    /\ Goto(p, "done")
    /\ UNCHANGED <<dataVars, socket, listener, actualPort, startupCh, wg, doneCloses,
                   listenerCloses, closeOnce, closeReturned, response, previous>>

\* p calls Close
ClientClose(p) ==
    /\ pc[p] = "idle"
    /\ HandleReturned
    /\ Goto(p, "cOnce")
    /\ UNCHANGED <<dataVars, mu, socket, listener, actualPort, startupCh, wg, doneCloses,
                   listenerCloses, closeOnce, closeReturned, ret, local, response, previous>>

\* s.closeOnce.Do runs the function: close(s.done)
CloseOnceEnter(p) ==
    /\ pc[p] = "cOnce"
    /\ OnceFresh(closeOnce)
    /\ closeOnce' = "running"
    /\ doneCloses' = doneCloses + 1
    /\ Goto(p, "cLock")
    /\ UNCHANGED <<dataVars, mu, socket, listener, actualPort, startupCh, wg,
                   listenerCloses, closeReturned, ret, local, response, previous>>

\* s.closeOnce.Do returns without running the function, once the call that
\* runs it has returned
CloseOnceSkip(p) ==
    /\ pc[p] = "cOnce"
    /\ closeOnce = "done"
    /\ Goto(p, "cWait")
    /\ UNCHANGED <<dataVars, mu, socket, listener, actualPort, startupCh, wg, doneCloses,
                   listenerCloses, closeOnce, closeReturned, ret, local, response, previous>>

\* s.mu.Lock() of Close
CloseLock(p) ==
    /\ pc[p] = "cLock"
    /\ CanAnnounce(mu)
    /\ mu' = Announce(mu, p)
    /\ Goto(p, "cLockWait")
    /\ UNCHANGED <<dataVars, socket, listener, actualPort, startupCh, wg, doneCloses,
                   listenerCloses, closeOnce, closeReturned, ret, local, response, previous>>

CloseLocked(p) ==
    /\ pc[p] = "cLockWait"
    /\ CanLock(mu, p)
    /\ Goto(p, "cListener")
    /\ UNCHANGED <<dataVars, mu, socket, listener, actualPort, startupCh, wg, doneCloses,
                   listenerCloses, closeOnce, closeReturned, ret, local, response, previous>>

\* s.listener.Close() when s.listener is set, s.mu.Unlock(), Do returns
CloseListener(p) ==
    /\ pc[p] = "cListener"
    /\ IF listener # "nil"
       THEN socket' = "closed" /\ listenerCloses' = listenerCloses + 1
       ELSE UNCHANGED <<socket, listenerCloses>>
    /\ mu' = CloseRelease(mu, p)
    /\ closeOnce' = "done"
    /\ Goto(p, "cWait")
    /\ UNCHANGED <<dataVars, listener, actualPort, startupCh, wg, doneCloses,
                   closeReturned, ret, local, response, previous>>

\* s.wg.Wait() returns
CloseWait(p) ==
    /\ pc[p] = "cWait"
    /\ WaitDone(wg)
    /\ Goto(p, "cRLock")
    /\ UNCHANGED <<dataVars, mu, socket, listener, actualPort, startupCh, wg, doneCloses,
                   listenerCloses, closeOnce, closeReturned, ret, local, response, previous>>

\* s.mu.RLock() before the final statistics are logged
CloseRLock(p) ==
    /\ pc[p] = "cRLock"
    /\ CanRLock(mu, p)
    /\ mu' = RLock(mu, p)
    /\ Goto(p, "cLog")
    /\ UNCHANGED <<dataVars, socket, listener, actualPort, startupCh, wg, doneCloses,
                   listenerCloses, closeOnce, closeReturned, ret, local, response, previous>>

\* the statistics are logged, the deferred RUnlock, return nil
CloseReturn(p) ==
    /\ pc[p] = "cLog"
    /\ mu' = RUnlock(mu, p)
    /\ ret' = [ret EXCEPT ![p] = [call |-> "Close", err |-> "nil", data |-> <<>>]]
    /\ closeReturned' = TRUE
    /\ Goto(p, "done")
    /\ UNCHANGED <<dataVars, socket, listener, actualPort, startupCh, wg, doneCloses,
                   listenerCloses, closeOnce, local, response, previous>>

\* the caller has the result of its call and drops it
Return(p) ==
    /\ pc[p] = "done"
    /\ ret' = [ret EXCEPT ![p] = NoReturn]
    /\ Goto(p, "idle")
    /\ UNCHANGED <<dataVars, mu, socket, listener, actualPort, startupCh, wg, doneCloses,
                   listenerCloses, closeOnce, closeReturned, local, response, previous>>

NextAgent ==
    \/ MainNew
    \/ MainStarted
    \/ MainTimeout
    \/ MainPortRLock
    \/ MainReturn
    \/ AgentResolve
    \/ AgentListen
    \/ AgentBindLock
    \/ AgentBindLocked
    \/ AgentSetListener
    \/ AgentReady
    \/ AgentSelect
    \/ AgentReceive
    \/ AgentReadTimeout
    \/ AgentReadClosed
    \/ AgentReadError
    \/ AgentCheck
    \/ AgentSnapRLock
    \/ AgentSnapshot
    \/ AgentDispatch
    \/ AgentListenerRLock
    \/ AgentGetListener
    \/ AgentSend
    \/ \E p \in Clients : ClientWrite(p)
    \/ \E p \in Clients : WriteLock(p)
    \/ \E p \in Clients : WriteLocked(p)
    \/ \E p \in Clients : WriteAppend(p)
    \/ \E p \in Clients : WriteUpdate(p)
    \/ \E p \in Readers : ClientRead(p)
    \/ \E p \in Readers : ReadRLock(p)
    \/ \E p \in Readers : ReadReturn(p)
    \/ \E p \in Clients : ClientClose(p)
    \/ \E p \in Clients : CloseOnceEnter(p)
    \/ \E p \in Clients : CloseOnceSkip(p)
    \/ \E p \in Clients : CloseLock(p)
    \/ \E p \in Clients : CloseLocked(p)
    \/ \E p \in Clients : CloseListener(p)
    \/ \E p \in Clients : CloseWait(p)
    \/ \E p \in Clients : CloseRLock(p)
    \/ \E p \in Clients : CloseReturn(p)
    \/ \E p \in Clients : Return(p)

SpecAgent == InitAgent /\ [][NextAgent]_vars

\* the steps of the read loop other than building a snapshot and a response
AgentProgress ==
    \/ AgentResolve
    \/ AgentListen
    \/ AgentBindLock
    \/ AgentBindLocked
    \/ AgentSetListener
    \/ AgentReady
    \/ AgentSelect
    \/ AgentReceive
    \/ AgentReadTimeout
    \/ AgentReadClosed
    \/ AgentReadError
    \/ AgentCheck
    \/ AgentSnapRLock
    \/ AgentListenerRLock
    \/ AgentGetListener
    \/ AgentSend

\* the steps of a call that p has made
ClientProgress(p) ==
    \/ WriteLock(p)
    \/ WriteLocked(p)
    \/ WriteAppend(p)
    \/ WriteUpdate(p)
    \/ ReadRLock(p)
    \/ ReadReturn(p)
    \/ CloseOnceEnter(p)
    \/ CloseOnceSkip(p)
    \/ CloseLock(p)
    \/ CloseLocked(p)
    \/ CloseListener(p)
    \/ CloseWait(p)
    \/ CloseRLock(p)
    \/ CloseReturn(p)

\* The Go scheduler runs every runnable goroutine, and s.mu hands the lock
\* to a goroutine that keeps waiting for it: a goroutine whose next step is
\* possible again and again takes it.  Nothing obliges a datagram to arrive
\* or a caller to call.  (The two steps that compute a snapshot and a
\* response are possible exactly at their place in runSNMPAgent, which is
\* how their fairness is written.)
AgentFairness ==
    /\ SF_vars(AgentProgress)
    /\ ([]<>(pc["agent"] # "snapshot") \/ []<><<AgentSnapshot>>_vars)
    /\ ([]<>(pc["agent"] # "dispatch") \/ []<><<AgentDispatch>>_vars)
    /\ \A p \in Clients : SF_vars(ClientProgress(p))

SpecAgentFair == InitAgent /\ [][NextAgent]_vars /\ AgentFairness

\* NewSNMPOutput has returned the handle and the loop is at its top; the
\* kind of each datagram handled is kept in previous
InitLoop ==
    /\ config = [EnterpriseOID |-> <<Empty, 1, 3>>, Community |-> "public",
                 Enabled |-> TRUE, Port |-> 0]
    /\ cache = <<>>
    /\ stats = <<>>
    /\ siteIndex = <<>>
    /\ nextSiteIndex = 0
    /\ written = <<>>
    /\ firstSeen = <<>>
    /\ request = NoRequest
    /\ snapshot = <<>>
    /\ reply = <<>>
    /\ input = <<>>
    /\ NoObjects
    /\ output = <<>>
    /\ walk = IdleWalk
    /\ pc = [p \in Procs |-> IF p = "main" THEN "returned"
                              ELSE IF p = "agent" THEN "select" ELSE "idle"]
    /\ mu = FreeMutex
    /\ socket = "open"
    /\ listener = "set"
    /\ actualPort = EphemeralPort
    /\ startupCh = <<>>
    /\ wg = 1
    /\ doneCloses = 0
    /\ listenerCloses = 0
    /\ closeOnce = "fresh"
    /\ closeReturned = FALSE
    /\ ret = [p \in Procs |-> IF p = "main"
                               THEN [call |-> "NewSNMPOutput", err |-> "nil",
                                     data |-> <<"handle">>]
                               ELSE NoReturn]
    /\ local = [p \in Procs |-> <<>>]
    /\ response = <<>>
    /\ previous = ""

\* the goroutine that writes results, and the one that shuts down
Writer == "c1"

Closer == "c2"

\* the read loop, a writer of results and a caller of Close
NextLoop ==
    \/ AgentSelect
    \/ AgentReceive
    \/ AgentReadTimeout
    \/ AgentReadClosed
    \/ AgentReadError
    \/ AgentCheck
    \/ AgentSnapRLock
    \/ AgentSnapshot
    \/ AgentDispatch
    \/ AgentListenerRLock
    \/ AgentGetListener
    \/ AgentSend
    \/ ClientWrite(Writer)
    \/ WriteLock(Writer)
    \/ WriteLocked(Writer)
    \/ WriteAppend(Writer)
    \/ WriteUpdate(Writer)
    \/ ClientClose(Closer)
    \/ CloseOnceEnter(Closer)
    \/ CloseOnceSkip(Closer)
    \/ CloseLock(Closer)
    \/ CloseLocked(Closer)
    \/ CloseListener(Closer)
    \/ CloseWait(Closer)
    \/ CloseRLock(Closer)
    \/ CloseReturn(Closer)
    \/ Return(Writer)
    \/ Return(Closer)

SpecLoop == InitLoop /\ [][NextLoop]_vars /\ AgentFairness

----------------------------------------------------------------------------
(* Writers of successes and failures beside the read loop *)

\* the handle has been returned and the loop waits for a datagram
InitRace == Init /\ config.EnterpriseOID = <<Empty, 1, 3>>

\* p calls Write with the record of a success or of a failure
ClientWriteAny(p) ==
    /\ pc[p] = "idle"
    /\ HandleReturned
    /\ Len(written) + WritesUnderWay < MaxServingWrites
    /\ \E result \in ServingResults : local' = [local EXCEPT ![p] = <<result>>]
    /\ Goto(p, "wLock")
    /\ UNCHANGED <<dataVars, mu, socket, listener, actualPort, startupCh, wg, doneCloses,
                   listenerCloses, closeOnce, closeReturned, ret, response, previous>>

\* the read loop and two callers of Write
NextRace ==
    \/ AgentSelect
    \/ AgentReceive
    \/ AgentReadTimeout
    \/ AgentCheck
    \/ AgentSnapRLock
    \/ AgentSnapshot
    \/ AgentDispatch
    \/ AgentListenerRLock
    \/ AgentGetListener
    \/ AgentSend
    \/ \E p \in Clients : ClientWriteAny(p)
    \/ \E p \in Clients : WriteLock(p)
    \/ \E p \in Clients : WriteLocked(p)
    \/ \E p \in Clients : WriteAppend(p)
    \/ \E p \in Clients : WriteUpdate(p)
    \/ \E p \in Clients : Return(p)

SpecRace == InitRace /\ [][NextRace]_vars

----------------------------------------------------------------------------
(* The history buffer and the site indexes *)

\* C1: after n Write calls the history buffer holds exactly the last
\* min(n, maxSize) written records in arrival order, so it never exceeds the
\* capacity and a Write on a full buffer evicts the oldest record only
C1_HistoryIsLastWritten ==
    /\ Len(cache) <= maxSize
    /\ cache = LastN(written, Min(Len(written), maxSize))

\* more than one record has been evicted from a full buffer
C1_Evicted == Len(written) >= maxSize + 2 /\ Len(cache) = maxSize

\* the k-th distinct site key seen has index k, and the entries of a
\* snapshot are the sites in that order
IndexIsFirstSeenRank ==
    /\ DOMAIN siteIndex = Range(firstSeen)
    /\ \A k \in 1..Len(firstSeen) : siteIndex[firstSeen[k]] = k
    /\ EntriesByIndex(DOMAIN stats \cap DOMAIN siteIndex) = firstSeen

\* a step keeps every assigned index
IndexesKept ==
    \A key \in DOMAIN siteIndex :
        key \in DOMAIN siteIndex' /\ siteIndex'[key] = siteIndex[key]

\* C2: site indexes are assigned injectively in first-seen order, the k-th
\* distinct key getting the positive index k whatever its name and counts,
\* and no later Write changes, removes or reuses an assigned index
C2_IndexFirstSeenAndStable == []IndexIsFirstSeenRank /\ [][IndexesKept]_vars

\* b.example was seen before a.example, and a record was written after both
\* had their index
C2_TwoSitesThenWrite ==
    /\ firstSeen = <<"b.example", "a.example">>
    /\ Len(written) >= 2
    /\ SiteKey(written[Len(written) - 1]) = "a.example"
    /\ SiteKey(written[Len(written)]) = "b.example"
    /\ siteIndex["b.example"] = 1

----------------------------------------------------------------------------
(* The dispatcher *)

\* the last step handled a request of the given type and sent a reply
Answered(type) ==
    /\ request.decode = "ok"
    /\ request.packet.PDUType = type
    /\ snapshot # <<>>
    /\ reply # <<>>

\* the variables of the request and of the reply, the table of the snapshot
Asked == request.packet.Variables

Returned == reply[1].packet.Variables

Table == snapshot[1].values

\* the arcs of a name that starts with a dot
Arcs(oid) == Tail(oid)

\* numeric dotted order: a precedes b when a is a proper prefix of b or the
\* first arc in which they differ is smaller in a
NumericLess(a, b) ==
    LET p == Arcs(a)
        q == Arcs(b)
    IN  \E k \in 1..Len(q) :
            /\ k <= Len(p) + 1
            /\ \A j \in 1..(k - 1) : p[j] = q[j]
            /\ (k > Len(p) \/ p[k] < q[k])

\* pdu is what GetNext owes for the name a: the entry of the smallest table
\* name greater than a, or the end-of-tree marker named a when there is none
IsNextOf(values, a, pdu) ==
    IF pdu.Type = "EndOfMibView"
    THEN /\ pdu = EndOfMibView(a)
         /\ \A x \in DOMAIN values : ~NumericLess(a, x)
    ELSE /\ pdu.Name \in DOMAIN values
         /\ pdu = values[pdu.Name]
         /\ NumericLess(a, pdu.Name)
         /\ \A x \in DOMAIN values : ~(NumericLess(a, x) /\ NumericLess(x, pdu.Name))

\* C3: a Get reply has one variable per requested name, in request order:
\* the table entry of the name when the table has it, otherwise a
\* no-such-object marker with that name; an absent name neither changes the
\* other variables nor turns the reply into an error
C3_GetPerAddress ==
    Answered("GetRequest") =>
        /\ reply[1].packet.Error = "NoError"
        /\ Len(Returned) = Len(Asked)
        /\ \A i \in 1..Len(Asked) :
              /\ Returned[i].Name = Asked[i].Name
              /\ IF Asked[i].Name \in DOMAIN Table
                 THEN Returned[i] = Table[Asked[i].Name]
                 ELSE Returned[i] = NoSuchObject(Asked[i].Name)

\* a Get of an absent name followed by a present one, with a site in the table
C3_AbsentThenPresent ==
    /\ Answered("GetRequest")
    /\ Len(Asked) = 2
    /\ stats # <<>>
    /\ Asked[1].Name \notin DOMAIN Table
    /\ Returned[1].Type = "NoSuchObject"
    /\ Asked[2].Name \in DOMAIN Table
    /\ Returned[2].Type = "Gauge32"

\* C4: a GetNext reply has one variable per requested name, in request
\* order: the entry of the smallest table name strictly greater than the
\* requested one in numeric dotted order, whether or not the requested name
\* is in the table, or an end-of-tree marker with the requested name when no
\* table name is greater
C4_GetNextSuccessor ==
    Answered("GetNextRequest") =>
        /\ Len(Returned) = Len(Asked)
        /\ \A i \in 1..Len(Asked) : IsNextOf(Table, Asked[i].Name, Returned[i])

\* a GetNext of the last name of the table and of a name in the table that
\* has a successor
C4_EndThenValue ==
    /\ Answered("GetNextRequest")
    /\ Len(Asked) = 2
    /\ Asked[1].Name = Base \o <<5, 1, 10>>
    /\ Returned[1].Type = "EndOfMibView"
    /\ Asked[2].Name \in DOMAIN Table
    /\ Returned[2].Name = Base \o <<2, 0>>

\* the reply variables of the repeating names, cut where a cursor stops:
\* after r variables or after an end-of-tree marker
RECURSIVE Segments(_, _)
Segments(seq, r) ==
    IF seq = <<>> THEN <<>>
    ELSE LET top == Min(r, Len(seq))
             ends == {i \in 1..top : seq[i].Type = "EndOfMibView"}
             n == IF ends = {} THEN top ELSE CHOOSE i \in ends : \A j \in ends : i <= j
         IN  <<SubSeq(seq, 1, n)>> \o Segments(SubSeq(seq, n + 1, Len(seq)), r)

\* a GetBulk request of k + m names with maxRepetitions r >= 1 was answered
BulkAnswered ==
    /\ Answered("GetBulkRequest")
    /\ request.packet.NonRepeaters <= Len(Asked)
    /\ request.packet.MaxRepetitions >= 1

BulkK == request.packet.NonRepeaters

BulkM == Len(Asked) - BulkK

BulkR == request.packet.MaxRepetitions

\* the reply variables of the repeating names
BulkTail == SubSeq(Returned, BulkK + 1, Len(Returned))

\* C5: a GetBulk reply to k + m names has at most k + m*r variables,
\* exactly k + m*r when no repeating name runs into the end of the tree, and
\* the variables of a repeating name that are fewer than r end with an
\* end-of-tree marker
C5_BulkCount ==
    BulkAnswered =>
        LET segs == Segments(BulkTail, BulkR) IN
        /\ Len(Returned) >= BulkK
        /\ Len(Returned) <= BulkK + BulkM * BulkR
        /\ (\A i \in 1..Len(BulkTail) : BulkTail[i].Type # "EndOfMibView")
              => Len(Returned) = BulkK + BulkM * BulkR
        /\ Len(segs) = BulkM
        /\ \A j \in 1..Len(segs) :
              Len(segs[j]) < BulkR => segs[j][Len(segs[j])].Type = "EndOfMibView"

\* one non-repeater and two repeating names with r = 3: one cursor stops at
\* the end of the tree after two variables, the other returns three
C5_ShortAndFull ==
    /\ BulkAnswered
    /\ BulkK = 1 /\ BulkM = 2 /\ BulkR = 3
    /\ Len(Returned) = 6
    /\ Returned[3].Type = "EndOfMibView"
    /\ Returned[6].Type # "EndOfMibView"

\* C6: in a GetBulk reply the first k variables are the GetNext results of
\* the first k names; the variables of each repeating name are consecutive
\* successors in the table: the first is the GetNext result of the name,
\* each further one the GetNext result of the name returned before it
C6_BulkWalk ==
    BulkAnswered =>
        LET segs == Segments(BulkTail, BulkR) IN
        /\ Len(Returned) >= BulkK
        /\ \A i \in 1..BulkK : IsNextOf(Table, Asked[i].Name, Returned[i])
        /\ Len(segs) = BulkM
        /\ \A j \in 1..Len(segs) :
              \A i \in 1..Len(segs[j]) :
                 IsNextOf(Table,
                          IF i = 1 THEN Asked[BulkK + j].Name ELSE segs[j][i - 1].Name,
                          segs[j][i])

\* a cursor started at .5.1.8 walks over the end of site 1 into site 2
C6_WalkAcrossSites ==
    /\ BulkAnswered
    /\ BulkK = 0 /\ BulkR = 3
    /\ Len(Asked) = 2
    /\ Asked[1].Name = Base \o <<5, 1, 8>>
    /\ Len(Returned) >= 3
    /\ Returned[1].Name = Base \o <<5, 1, 9>>
    /\ Returned[2].Name = Base \o <<5, 1, 10>>
    /\ Returned[3].Name = Base \o <<5, 2, 1>>

\* C7: a request whose community is not the configured one gets no reply,
\* whatever its type and names and whatever the store holds
C7_UnauthorizedNoReply ==
    (request.decode = "ok" /\ request.packet.Community # config.Community)
        => reply = <<>>

\* a v2c Get with the wrong community was handled while a site is in the store
C7_UnauthorizedHandled ==
    /\ request.decode = "ok"
    /\ request.packet.Version = "Version2c"
    /\ request.packet.PDUType = "GetRequest"
    /\ request.packet.Community = "private"
    /\ stats # <<>>
    /\ reply = <<>>

\* C8: a snapshot is built, and a reply sent, only for a datagram that
\* decoded to a packet of version 1 or 2c with the configured community; a
\* request of another version gets no snapshot and no reply
C8_ChecksBeforeDispatch ==
    /\ (snapshot # <<>> \/ reply # <<>>) =>
          /\ request.decode = "ok"
          /\ request.packet.Version \in {"Version1", "Version2c"}
          /\ request.packet.Community = config.Community
    /\ (request.decode = "ok" /\ request.packet.Version = "Version3") =>
          (snapshot = <<>> /\ reply = <<>>)

\* a version 3 request with the configured community was handled
C8_Version3Handled ==
    /\ request.decode = "ok"
    /\ request.packet.Version = "Version3"
    /\ request.packet.Community = config.Community
    /\ stats # <<>>
    /\ snapshot = <<>>

\* the request passed the version and community checks
Authorized ==
    /\ request.decode = "ok"
    /\ request.packet.Version \in {"Version1", "Version2c"}
    /\ request.packet.Community = config.Community

Prefixes(oid) == { SubSeq(oid, 1, n) : n \in 2..(Len(oid) - 1) }

\* C10: the sorted list of a snapshot holds every table name exactly once,
\* in ascending numeric dotted order (arcs compared as integers), and
\* compareOIDs puts a proper prefix of a table name before it
C10_SortedNumerically ==
    snapshot # <<>> =>
        LET oids == snapshot[1].oids IN
        /\ Range(oids) = DOMAIN Table
        /\ Len(oids) = Cardinality(DOMAIN Table)
        /\ \A i \in 1..(Len(oids) - 1) : NumericLess(oids[i], oids[i + 1])
        /\ \A i \in 1..Len(oids) : \A pre \in Prefixes(oids[i]) :
              compareOIDs(pre, oids[i]) < 0 /\ compareOIDs(oids[i], pre) > 0

\* a snapshot of two sites: .5.1.9, .5.1.10 and .5.2.1 follow each other
C10_TenAfterNine ==
    /\ snapshot # <<>>
    /\ \E i \in 1..(Len(snapshot[1].oids) - 2) :
          /\ snapshot[1].oids[i] = Base \o <<5, 1, 9>>
          /\ snapshot[1].oids[i + 1] = Base \o <<5, 1, 10>>
          /\ snapshot[1].oids[i + 2] = Base \o <<5, 2, 1>>

----------------------------------------------------------------------------
(* The order of addresses *)

\* C11: compareOIDs is a total order on addresses of non-negative arcs: it
\* returns -1, 0 or 1, compare(a, b) = -compare(b, a), it is transitive, and
\* it returns 0 only for one and the same address
C11_TotalOrder ==
    output # <<>> =>
        /\ output.ab \in {-1, 0, 1}
        /\ output.ab = 0 - output.ba
        /\ (output.ab = 0) <=> (input[1] = input[2])
        /\ (output.ab < 0 /\ output.bc < 0) => output.ac < 0
        /\ (output.ab <= 0 /\ output.bc <= 0) => output.ac <= 0
        /\ (output.ab < 0) <=> NumericLess(input[1], input[2])

\* .2 against .2.0, which differ only by a trailing zero arc, and .2.0
\* against .10
C11_PrefixZeroTen ==
    /\ output # <<>>
    /\ input = << <<Empty, 2>>, <<Empty, 2, 0>>, <<Empty, 10>> >>
    /\ output.ab = -1
    /\ output.bc = -1

----------------------------------------------------------------------------
(* Walks *)

\* the names of the table of a store with s sites: 4 scalars, 10 per site
TableNames(s) ==
    { Base \o <<k, 0>> : k \in 1..4 }
    \cup { Base \o <<5, i, f>> : i \in 1..s, f \in 1..10 }

\* seq is strictly ascending in numeric dotted order
Ascending(seq) == \A i \in 1..(Len(seq) - 1) : NumericLess(seq[i], seq[i + 1])

\* the walk so far: ascending, no name twice, every name a table name, no
\* table name below the cursor left out; once ended, every table name
WalkInOrder ==
    LET sites == Cardinality(DOMAIN siteIndex)
        table == TableNames(sites)
    IN  walk.state \in {"walking", "ended"} =>
          /\ Ascending(walk.names)
          /\ Cardinality(Range(walk.names)) = Len(walk.names)
          /\ Range(walk.names) \subseteq table
          /\ \A a \in table :
                (a = walk.cursor \/ NumericLess(a, walk.cursor)) => a \in Range(walk.names)
          /\ walk.state = "ended" =>
                /\ Range(walk.names) = table
                /\ Len(walk.names) = 4 + 10 * sites

\* C12: on an unchanged store with s sites, a walk by GetNext from the base
\* or a name before it returns every table name exactly once in ascending
\* order, 4 + 10*s names in all, then the end-of-tree marker; every walk
\* that has begun ends
C12_WalkVisitsAll ==
    /\ []WalkInOrder
    /\ (walk.state = "walking") ~> (walk.state = "ended")

\* a walk over two sites that began before the base has ended
C12_WalkedTwoSites ==
    /\ walk.state = "ended"
    /\ walk.start = <<Empty, 1, 2>>
    /\ Cardinality(DOMAIN siteIndex) = 2
    /\ Len(walk.names) = 24
    /\ reply # <<>>
    /\ reply[1].packet.Variables[1].Type = "EndOfMibView"

\* C13: with Write calls between the requests of a walk, the names of a
\* snapshot include the names of the snapshot before it, the name that holds
\* a site's name holds it in every later snapshot, the names a walk returns
\* are strictly ascending with none twice, and no name the table had when
\* the walk began is skipped
C13_WalkUnderWrites ==
    /\ \A a \in DOMAIN walk.before :
          /\ a \in DOMAIN walk.last
          /\ walk.last[a] = walk.before[a]
    /\ DOMAIN walk.last \subseteq DOMAIN buildOIDSnapshot(0).values
    /\ walk.state \in {"walking", "ended"} =>
          /\ Ascending(walk.names)
          /\ Cardinality(Range(walk.names)) = Len(walk.names)
          /\ \A a \in walk.first :
                (a = walk.cursor \/ NumericLess(a, walk.cursor) \/ walk.state = "ended")
                    => a \in Range(walk.names)

\* a walk began on one site, a second site was written during it, and the
\* walk ended after the names of both
C13_SiteAddedDuringWalk ==
    /\ walk.state = "ended"
    /\ Cardinality(walk.first) = 14
    /\ Len(walk.names) = 24
    /\ Cardinality(DOMAIN walk.before) = 24

\* C17: under fair scheduling every call of Write, of an accessor (Port,
\* GetAllStats, GetCachedResults, GetSNMPData) and of Close that a goroutine
\* has made returns: no interleaving of these calls with the read loop
\* leaves one of them waiting for ever.
C17_CallsReturn ==
    \A p \in Clients : (pc[p] \notin {"idle", "done"}) ~> (pc[p] = "done")

\* a Close has returned to c2 and a Write to c1, and the read loop has
\* exited
C17_CloseReturnedAfterWait ==
    /\ ret["c2"].call = "Close"
    /\ ret["c1"].call = "Write"
    /\ pc["agent"] = "exited"

\* the places of runSNMPAgent before it has signalled that it is ready
BeforeReady == {"none", "resolve", "listen", "bindLock", "bindLockWait", "setListener", "ready"}

\* C14: NewSNMPOutput returns a handle only after the goroutine has bound
\* the socket, stored the listener and the port, and signalled that it is
\* ready; when the address does not resolve, the socket does not bind or
\* the wait times out, it returns an error and no handle.
C14_HandleOnlyWhenReady ==
    pc["main"] = "returned" /\ config.Enabled =>
        /\ ret["main"].call = "NewSNMPOutput"
        /\ \/ /\ HandleReturned
              /\ ret["main"].err = "nil"
              /\ socket # "unbound"
              /\ listener = "set"
              /\ actualPort # 0
              /\ pc["agent"] \notin BeforeReady
           \/ /\ ret["main"].data = <<>>
              /\ ret["main"].err # "nil"
        /\ socket = "unbound" /\ pc["agent"] = "exited" => ret["main"].err # "nil"
        /\ ret["main"].err = "timeout waiting for SNMP agent to start" =>
               ret["main"].data = <<>>

\* the handle has been returned and the loop reads from the bound socket
C14_HandleWhileReading ==
    /\ HandleReturned
    /\ pc["agent"] = "read"
    /\ socket = "open"
    /\ actualPort = EphemeralPort

\* Close has passed s.wg.Wait() in goroutine p, or has returned to it
PastWait(p) == pc[p] \in {"cRLock", "cLog"} \/ ret[p].call = "Close"

\* C15: Close returns only after the goroutine of runSNMPAgent has exited:
\* once a call of Close is past s.wg.Wait(), and ever after a Close has
\* returned, the goroutine has returned and the wait group is at zero.
C15_CloseAfterLoopExit ==
    (closeReturned \/ \E p \in Clients : PastWait(p)) =>
        /\ pc["agent"] = "exited"
        /\ wg = 0

\* Close has returned nil to c1: the loop has exited and the socket has been
\* closed
C15_CloseReturned ==
    /\ closeReturned
    /\ ret["c1"] = [call |-> "Close", err |-> "nil", data |-> <<>>]
    /\ pc["agent"] = "exited"
    /\ listenerCloses = 1

\* C16: however many times and from however many goroutines Close is
\* called, s.done is closed once (a second close would panic) and the
\* socket is closed once; every call returns nil, and when one has returned
\* both have been closed.
C16_CloseIdempotent ==
    /\ doneCloses <= 1
    /\ listenerCloses <= 1
    /\ closeOnce = "fresh" <=> doneCloses = 0
    /\ closeReturned => doneCloses = 1 /\ listenerCloses = 1 /\ socket = "closed"
    /\ \A p \in Clients : ret[p].call = "Close" => ret[p].err = "nil"

\* Close has returned to c1, and c2 calls it when closeOnce has run its
\* function
C16_ClosedTwiceAndAgain ==
    /\ ret["c1"].call = "Close"
    /\ pc["c2"] = "cOnce"
    /\ closeReturned
    /\ closeOnce = "done"

\* the datagrams that are dropped or answered with an error
FaultKinds == {"malformed", "version", "community", "type", "absent"}

\* the response to the valid request has been sent
ValidAnswered ==
    /\ request = LifeDatagrams["valid"]
    /\ reply # <<>>
    /\ reply[1].to = request.remote
    /\ reply[1].packet.PDUType = "GetResponse"
    /\ reply[1].packet.Error = "NoError"
    /\ reply[1].packet.Variables[1].Name = Base \o <<1, 0>>

\* C18: a malformed datagram, an unsupported version, a wrong community, an
\* unsupported operation type or a request for an absent address does not
\* make the read loop exit: while shutdown has not been requested the loop
\* has not exited, and a valid request that arrives after such a datagram
\* is answered unless shutdown is requested meanwhile.
C18_LoopSurvivesFaults ==
    /\ [](doneCloses = 0 => pc["agent"] # "exited" /\ socket = "open")
    /\ (previous \in FaultKinds /\ pc["agent"] = "handle"
          /\ request = LifeDatagrams["valid"])
         ~> (ValidAnswered \/ doneCloses > 0)

\* the loop has answered a valid request that followed a malformed
\* datagram, and shutdown has not been requested
C18_AnsweredAfterMalformed ==
    /\ previous = "malformed"
    /\ request = LifeDatagrams["valid"]
    /\ reply # <<>>
    /\ doneCloses = 0

\* C19: the read loop holds the read lock of s.mu only while
\* buildOIDSnapshot builds the snapshot and while handleRequest reads
\* s.listener, and never the write lock; while it decodes and checks a
\* request, builds and encodes the response and sends it, it holds no lock,
\* so that a Write waiting for the lock then waits for no step of the loop.
C19_LockOnlyForSnapshot ==
    /\ "agent" \in mu.readers <=> pc["agent"] \in {"snapshot", "getListener"}
    /\ mu.writer = "agent" <=> pc["agent"] \in {"bindLockWait", "setListener"}
    /\ \A p \in Clients :
          pc["agent"] \in {"handle", "dispatch", "send"} /\ pc[p] = "wLockWait"
             /\ mu.readers \subseteq {"agent"} => CanLock(mu, p)

\* a Write holds the lock and appends to the history while the loop sends
\* a response
C19_WriteWhileSending ==
    /\ pc["agent"] = "send"
    /\ pc["c1"] = "wCache"
    /\ mu.writer = "c1"
    /\ response # <<>>

\* the store: what Write changes and the readers read
Store ==
    [cache |-> cache, stats |-> stats, siteIndex |-> siteIndex,
     nextSiteIndex |-> nextSiteIndex]

EmptyStore == [cache |-> <<>>, stats |-> <<>>, siteIndex |-> <<>>, nextSiteIndex |-> 0]

\* the store after one whole Write(result) on store st
WriteTo(st, result) ==
    LET siteName == SiteKey(result)
        exists == siteName \in DOMAIN st.stats
        indexed == siteName \in DOMAIN st.siteIndex
        stats1 == IF exists THEN st.stats
                  ELSE MapSet(st.stats, siteName,
                              NewSiteStats(result.Timings.TotalDurationMs))
    IN  [cache |-> AppendToCache(st.cache, result),
         stats |-> MapSet(stats1, siteName, UpdateStats(stats1[siteName], result)),
         siteIndex |-> IF ~exists /\ ~indexed
                       THEN AssignIndex(st.siteIndex, st.nextSiteIndex, siteName)
                       ELSE st.siteIndex,
         nextSiteIndex |-> IF ~exists /\ ~indexed THEN st.nextSiteIndex + 1
                           ELSE st.nextSiteIndex]

\* the store after the writes of seq, one at a time
RECURSIVE Replay(_)
Replay(seq) ==
    IF seq = <<>> THEN EmptyStore
    ELSE WriteTo(Replay(SubSeq(seq, 1, Len(seq) - 1)), seq[Len(seq)])

\* the orders in which the writes of seq can be applied
Orders(seq) ==
    { [i \in 1..Len(seq) |-> seq[f[i]]] : f \in Permutations(1..Len(seq)) }

\* the stores after the first k writes, for every k
WholeStores == { Replay(SubSeq(written, 1, k)) : k \in 0..Len(written) }

\* what an accessor returned was read from a store with only whole writes
ReadWhole(r) ==
    CASE r.call = "GetAllStats" ->
            \E st \in WholeStores : r.data[1].stats = st.stats
      [] r.call = "GetCachedResults" ->
            \E st \in WholeStores : r.data[1].results = st.cache
      [] r.call = "GetSNMPData" ->
            \E st \in WholeStores :
               /\ r.data[1].cache_size = Len(st.cache)
               /\ r.data[1].monitored_sites = Cardinality(DOMAIN st.siteIndex)
               /\ DOMAIN r.data[1].sites = DOMAIN st.stats
               /\ \A n \in DOMAIN st.stats :
                     r.data[1].sites[n].total_tests = st.stats[n].TotalTests
      [] OTHER -> TRUE

\* C20: Write returns nil; concurrent calls of Write are serialized: when
\* no Write is between its append and its aggregate update, the store is
\* the one that the writes made so far give when applied one at a time in
\* some order; and no reader sees a partially applied write: while a
\* goroutine holds the read lock (the loop building a snapshot, an accessor
\* copying its result) every write made is whole, and what an accessor has
\* returned was read from such a store.
C20_WritesSerialized ==
    /\ \A p \in Clients : ret[p].call = "Write" => ret[p].err = "nil"
    /\ (\A p \in Clients : pc[p] # "wStats") =>
           \E order \in Orders(written) : Store = Replay(order)
    /\ mu.readers # {} => Store = Replay(written)
    /\ \A p \in Clients : ReadWhole(ret[p])
    /\ Cardinality({p \in Clients : pc[p] \in {"wCache", "wStats"}}) <= 1

\* c2 has written, c1 is between its append and its aggregate update, and
\* the loop waits for the read lock to build a snapshot
C20_ReaderWaitsForWrite ==
    /\ ret["c2"].call = "Write"
    /\ pc["c1"] = "wStats"
    /\ pc["agent"] = "snapRLock"
    /\ Len(written) = 2
    /\ Store # Replay(written)

\* the records written for site key n, in the order of their writes
RECURSIVE WrittenFor(_, _)
WrittenFor(seq, n) ==
    IF seq = <<>> THEN <<>>
    ELSE LET rest == WrittenFor(SubSeq(seq, 1, Len(seq) - 1), n)
             r == seq[Len(seq)]
         IN  IF SiteKey(r) = n THEN Append(rest, r) ELSE rest

\* the durations of a sequence of records
DurationsIn(seq) == [i \in 1..Len(seq) |-> seq[i].Timings.TotalDurationMs]

RECURSIVE SumOf(_)
SumOf(seq) == IF seq = <<>> THEN 0 ELSE Head(seq) + SumOf(Tail(seq))

\* the running average of site n is the mean of the durations written for it
AvgIsMean(n) ==
    LET ds == DurationsIn(WrittenFor(written, n)) IN
    /\ Len(ds) > 0
    /\ stats[n].AvgDurationMs.num * Len(ds) = SumOf(ds) * stats[n].AvgDurationMs.den

\* a step changes the running average of the written site only
OtherAvgsKept ==
    \A n \in DOMAIN stats :
        written' # written /\ SiteKey(written'[Len(written')]) # n =>
            n \in DOMAIN stats' /\ stats'[n].AvgDurationMs = stats[n].AvgDurationMs

\* C23: after N writes for a site its stored running average is the
\* arithmetic mean of the N durations written for it (avg * N is their sum
\* after every write), and a write for another site does not change it.
C23_RunningAverageIsMean ==
    /\ [](\A n \in DOMAIN stats : AvgIsMean(n))
    /\ [][OtherAvgsKept]_vars

\* three records of unequal durations have been written for a.example and
\* one for b.example
C23_ThreeDurationsAndAnotherSite ==
    /\ Len(WrittenFor(written, "a.example")) = 3
    /\ stats["a.example"].MinDurationMs # stats["a.example"].MaxDurationMs
    /\ "b.example" \in DOMAIN stats
    /\ stats["a.example"].AvgDurationMs.num * 3 # 150 * 3 * stats["a.example"].AvgDurationMs.den

\* the counts of site n in aggregate map f, zero when the site is not in it
CountsOf(f, n) ==
    IF n \in DOMAIN f
    THEN <<f[n].TotalTests, f[n].SuccessfulTests, f[n].FailedTests>>
    ELSE <<0, 0, 0>>

\* what one Write does to the counts
CountsStep ==
    written' # written =>
        LET r == written'[Len(written')]
            n == SiteKey(r)
        IN  /\ DOMAIN stats \subseteq DOMAIN stats'
            /\ n \in DOMAIN stats'
            /\ CountsOf(stats', n)[1] = CountsOf(stats, n)[1] + 1
            /\ CountsOf(stats', n)[2] =
                  CountsOf(stats, n)[2] + (IF r.Status.Success THEN 1 ELSE 0)
            /\ CountsOf(stats', n)[3] =
                  CountsOf(stats, n)[3] + (IF r.Status.Success THEN 0 ELSE 1)
            /\ \A m \in DOMAIN stats : m # n => stats'[m] = stats[m]

\* no step lowers a count
CountsNeverDecrease ==
    \A n \in DOMAIN stats :
        /\ n \in DOMAIN stats'
        /\ \A i \in 1..3 : CountsOf(stats', n)[i] >= CountsOf(stats, n)[i]

\* C24: over any sequence of Write calls no site's total, success or
\* failure count decreases: a Write adds 1 to the total of the written site
\* and 1 to its success count or to its failure count, as the record's
\* success flag says, and leaves the aggregates of every other site as they
\* were.
C24_CountsMonotonic == [][CountsStep /\ CountsNeverDecrease]_vars

\* a.example has a success and a failure, b.example a failure only
C24_MixedCounts ==
    /\ CountsOf(stats, "a.example") = <<2, 1, 1>>
    /\ CountsOf(stats, "b.example") = <<1, 0, 1>>

\* the largest and the smallest element of a non-empty sequence of numbers
MaxOf(seq) == CHOOSE x \in Range(seq) : \A y \in Range(seq) : y <= x

MinOf(seq) == CHOOSE x \in Range(seq) : \A y \in Range(seq) : x <= y

\* C25: after any sequence of writes, for every site the last duration is
\* that of the most recent record written for the site, and the maximum and
\* the minimum are those of all the durations written for it (the first
\* record sets both).
C25_LastMaxMin ==
    \A n \in DOMAIN stats :
        LET ds == DurationsIn(WrittenFor(written, n)) IN
        /\ Len(ds) > 0
        /\ stats[n].LastDurationMs = ds[Len(ds)]
        /\ stats[n].MaxDurationMs = MaxOf(ds)
        /\ stats[n].MinDurationMs = MinOf(ds)

\* a.example took 320 ms, then 150 ms, then 320 ms again
C25_SlowFastSlow ==
    /\ DurationsIn(WrittenFor(written, "a.example")) = <<320, 150, 320>>
    /\ stats["a.example"].LastDurationMs = 320
    /\ stats["a.example"].MinDurationMs = 150

\* the number a gauge, counter or timeticks entry of a snapshot holds
NumberAt(snap, oid) == snap.values[oid].Value.num

\* the site indexes that have an entry under .5 in a snapshot
IndexesUnder5(snap) ==
    { oid[Len(Base) + 2] :
        oid \in { o \in DOMAIN snap.values :
                    /\ Len(o) = Len(Base) + 3
                    /\ SubSeq(o, 1, Len(Base) + 1) = Base \o <<5>> } }

\* C26: in every snapshot the value at .1.0 is the length of the history
\* buffer, the value at .2.0 its capacity and the value at .3.0 the number
\* of distinct sites seen, all as they were when the per-site entries were
\* read: the value at .3.0 is the number of distinct indexes under .5 in
\* the same snapshot.
C26_ScalarsMatchTable ==
    snapshot # <<>> =>
        /\ NumberAt(snapshot[1], Base \o <<1, 0>>) = Len(cache)
        /\ NumberAt(snapshot[1], Base \o <<2, 0>>) = maxSize
        /\ NumberAt(snapshot[1], Base \o <<3, 0>>) = Cardinality(Range(firstSeen))
        /\ NumberAt(snapshot[1], Base \o <<3, 0>>) = Cardinality(IndexesUnder5(snapshot[1]))

\* a snapshot of a store holding two records of one site
C26_TwoRecordsOneSite ==
    /\ snapshot # <<>>
    /\ NumberAt(snapshot[1], Base \o <<1, 0>>) = 2
    /\ NumberAt(snapshot[1], Base \o <<3, 0>>) = 1
    /\ IndexesUnder5(snapshot[1]) = {1}

\* the timestamp of the last record of seq whose success flag is ok, 0 when
\* there is none
RECURSIVE LastTimeOf(_, _)
LastTimeOf(seq, ok) ==
    IF seq = <<>> THEN 0
    ELSE IF seq[Len(seq)].Status.Success = ok THEN seq[Len(seq)].Timestamp
    ELSE LastTimeOf(SubSeq(seq, 1, Len(seq) - 1), ok)

\* the snapshot's last-success and last-failure entries of every site
TimesInSnapshot(snap) ==
    \A n \in DOMAIN siteIndex :
        LET prefix == Base \o <<5, siteIndex[n]>> IN
        /\ NumberAt(snap, prefix \o <<5>>) = LastTimeOf(WrittenFor(written, n), TRUE)
        /\ NumberAt(snap, prefix \o <<6>>) = LastTimeOf(WrittenFor(written, n), FALSE)

\* a write of a success keeps every last-failure time, a write of a failure
\* every last-success time
OtherTimeKept ==
    written' # written =>
        \A n \in DOMAIN stats :
            IF written'[Len(written')].Status.Success
            THEN stats'[n].LastFailureTime = stats[n].LastFailureTime
            ELSE stats'[n].LastSuccessTime = stats[n].LastSuccessTime

\* C27: for every site the value at .5.<idx>.5 is 0 when no success was
\* ever written for the site and otherwise the unix time of the most recent
\* success written for it, and the value at .5.<idx>.6 is the same for
\* failures; a write of a success does not change a last-failure time, nor
\* a write of a failure a last-success time.
C27_LastTimes ==
    /\ [](snapshot # <<>> => TimesInSnapshot(snapshot[1]))
    /\ [][OtherTimeKept]_vars

\* a snapshot of a site that failed and then succeeded; another site has
\* never failed
C27_FailedThenSucceeded ==
    /\ snapshot # <<>>
    /\ "a.example" \in DOMAIN siteIndex
    /\ NumberAt(snapshot[1], Base \o <<5, siteIndex["a.example"], 6>>) = T0
    /\ NumberAt(snapshot[1], Base \o <<5, siteIndex["a.example"], 5>>) = T0 + 1

\* the number of repeating names of a GetBulk request, as the clamp of
\* nonRepeaters leaves it
RepeatingNames == Len(Asked) - Min(request.packet.NonRepeaters, Len(Asked))

\* C29: maxRepetitions is clamped to at least 1: a GetBulk request with
\* maxRepetitions 0 gets the variables the same request with maxRepetitions
\* 1 gets from the same snapshot, and in every GetBulk reply each repeating
\* name has at least one variable, a value or an end-of-tree marker.
C29_MaxRepetitionsAtLeastOne ==
    Answered("GetBulkRequest") =>
        /\ request.packet.MaxRepetitions = 0 =>
              /\ Returned = handleGetBulk([request.packet EXCEPT !.MaxRepetitions = 1],
                                          snapshot[1].values, snapshot[1].oids)
              /\ Len(Returned) = Len(Asked)
        /\ Len(Returned) >= Len(Asked)
        /\ Len(Segments(SubSeq(Returned, Len(Asked) - RepeatingNames + 1, Len(Returned)),
                        IF request.packet.MaxRepetitions = 0 THEN 1
                        ELSE request.packet.MaxRepetitions)) = RepeatingNames

\* a GetBulk with maxRepetitions 0 and two repeating names has been
\* answered with a value and an end-of-tree marker
C29_ZeroRepetitionsAnswered ==
    /\ Answered("GetBulkRequest")
    /\ request.packet.MaxRepetitions = 0
    /\ request.packet.NonRepeaters = 0
    /\ Len(Asked) = 2
    /\ Returned[1].Type = "EndOfMibView"
    /\ Returned[2].Type = "Gauge32"

\* the values the test scenario puts under <base>.5.1: the name, then the
\* numbers of fields 2, 3, 4 and 7 to 10 (total, success, failure, last,
\* average, maximum, minimum)
ScenarioNumbers == [k \in {2, 3, 4, 7, 8, 9, 10} |->
                       CASE k = 2 -> 2 [] k = 3 -> 1 [] k = 4 -> 1 [] k = 7 -> 320
                         [] k = 8 -> 235 [] k = 9 -> 320 [] k = 10 -> 150]

\* a variable of a reply carries what the scenario expects under its name
AsInScenario(pdu) ==
    \A k \in 1..10 :
        pdu.Name = Base \o <<5, 1, k>> =>
            /\ k = 1 => pdu.Type = "OctetString" /\ pdu.Value.text = "example.com"
            /\ k \in DOMAIN ScenarioNumbers => pdu.Value.num = ScenarioNumbers[k]
            /\ k \in {2, 3, 4} => pdu.Type = "Counter32"
            /\ k \in 5..10 => pdu.Type = "Gauge32"

\* C30: on a fresh agent, after a success of 150 ms and then a failure of
\* 320 ms written for example.com, Get of <base>.1.0 returns 2, Get of an
\* unknown name returns no-such-object, a GetNext walk from the base visits
\* <base>.5.1.1 = example.com, total 2, success 1, failure 1, last 320,
\* average 235, maximum 320 and minimum 150, and GetNext of <base>.5.1.10
\* returns the end-of-tree marker.
C30_TestScenario ==
    /\ Answered("GetRequest") /\ Asked[1].Name = Base \o <<1, 0>> =>
          /\ Len(Returned) = 1
          /\ Returned[1].Type = "Gauge32"
          /\ Returned[1].Value.num = 2
    /\ Answered("GetRequest") /\ Asked[1].Name = Base \o <<99, 0>> =>
          /\ Len(Returned) = 1
          /\ Returned[1].Type = "NoSuchObject"
    /\ Answered("GetNextRequest") /\ Asked[1].Name = Base \o <<5, 1, 10>> =>
          /\ Len(Returned) = 1
          /\ Returned[1].Type = "EndOfMibView"
    /\ Answered("GetNextRequest") /\ Returned[1].Type # "EndOfMibView" =>
          AsInScenario(Returned[1])
    /\ walk.state = "ended" /\ walk.start = Base =>
          /\ Len(walk.names) = 14
          /\ \A k \in 1..10 : walk.names[4 + k] = Base \o <<5, 1, k>>

\* the walk from the base has just been given the average, 235
C30_WalkAtAverage ==
    /\ walk.state = "walking"
    /\ walk.start = Base
    /\ Answered("GetNextRequest")
    /\ Returned[1].Name = Base \o <<5, 1, 8>>
    /\ Returned[1].Value.num = 235
    /\ Len(walk.names) = 12

----------------------------------------------------------------------------
(* Copies and references *)

\* the copies of aggregates a caller holds
HeldCopies == {id \in held : heap[id].kind = "stats"}

\* a Write leaves every copy a caller holds, and a snapshot under way, as
\* they were
WriteKeepsCopies ==
    written' # written =>
        /\ \A id \in HeldCopies : heap'[id] = heap[id]
        /\ snapshot' = snapshot

\* a step that is no Write (an accessor, a change to a returned copy, a
\* request) leaves the aggregates and the indexes of the store as they were
OthersKeepAggregates ==
    written' = written =>
        /\ stats' = stats
        /\ siteIndex' = siteIndex
        /\ nextSiteIndex' = nextSiteIndex

\* a copy handed out has the value the store holds at that moment
CopiesAreCurrent ==
    \A id \in held' \ held :
        heap'[id].kind = "stats" => \E n \in DOMAIN stats : heap'[id].v = stats[n]

\* every variable of a reply is a marker or the entry of the request's
\* snapshot under the name returned
FromOneSnapshot ==
    reply # <<>> =>
        /\ snapshot # <<>>
        /\ reply[1].packet = Response(request.packet, snapshot[1])
        /\ \A i \in DOMAIN Returned :
              \/ Returned[i].Type \in {"NoSuchObject", "EndOfMibView"}
              \/ /\ Returned[i].Name \in DOMAIN Table
                 /\ Returned[i] = Table[Returned[i].Name]

\* C21: a snapshot and the copies of aggregates that GetAllStats and
\* GetSiteStats return are isolated from the store: a Write after the copy
\* was taken changes nothing of it, a change made to a returned copy does not
\* change the store, and every variable of a reply comes from the one
\* snapshot taken for its request.
C21_CopiesIsolated ==
    /\ [][WriteKeepsCopies /\ OthersKeepAggregates /\ CopiesAreCurrent]_vars
    /\ []FromOneSnapshot

\* a caller holds a copy that a later Write has left behind and has changed
\* another copy, and a reply was built from a snapshot older than a Write
C21_StaleCopyAndSnapshot ==
    /\ \E id \in HeldCopies : \A n \in DOMAIN stats : heap[id].v.TotalTests < stats[n].TotalTests
    /\ \E id \in HeldCopies : /\ heap[id].v.LastDurationMs = 0
                              /\ \A n \in DOMAIN stats : stats[n].LastDurationMs # 0
    /\ reply # <<>>
    /\ Table[Base \o <<1, 0>>].Value.num < Len(cache)

\* C22: the history buffer keeps its own copy of each record and hands out
\* no reference into itself: a caller that changes a record after Write has
\* returned, or a record it got from GetCachedResults, does not change the
\* contents of the history buffer (only a Write does).
C22_HistoryKeepsOwnCopies == [][written' = written => cache' = cache]_vars

----------------------------------------------------------------------------
(* Counters and gauges on 32 bits *)

\* a - b on int64, for a >= b: digit by digit with the borrow
RECURSIVE SubFrom(_, _, _, _)
SubFrom(a, b, i, borrow) ==
    IF i > Len(a) THEN <<>>
    ELSE LET diff == a[i] - b[i] - borrow IN
         <<(diff + Limb) % Limb>> \o SubFrom(a, b, i + 1, IF diff < 0 THEN 1 ELSE 0)

\* a is within 0..2^32-1
IsUint32(u) == Len(u) = 2 /\ \A i \in 1..2 : u[i] \in 0..(Limb - 1)

\* u is n modulo 2^32: within 0..2^32-1 and such that 2^32 divides n - u
IsMod32(u, n) ==
    /\ IsUint32(u)
    /\ LET diff == SubFrom(n, u \o <<0, 0>>, 1, 0) IN diff[1] = 0 /\ diff[2] = 0
    /\ n[3] = 0 /\ n[4] = 0 => u \o <<0, 0>> = n

\* C28: counters wrap around on 32 bits: the total, success and failure
\* values of a snapshot are the site's 64-bit counts modulo 2^32, and a
\* gauge is always within 0..2^32-1.
C28_CountersWrap ==
    output # <<>> =>
        /\ IsMod32(output.total, input.TotalTests)
        /\ IsMod32(output.success, input.SuccessfulTests)
        /\ IsMod32(output.failure, input.FailedTests)
        /\ IsUint32(output.last)

\* the total was counted up from 2^32 - 1 to 2^32 and is exposed as 0,
\* while the successes, still below 2^32, are exposed as they are
C28_WrappedToZero ==
    /\ output # <<>>
    /\ input.counted > 0
    /\ input.TotalTests = <<0, 0, 1, 0>>
    /\ output.total = <<0, 0>>
    /\ input.SuccessfulTests[3] = 0
    /\ output.success # <<0, 0>>

----------------------------------------------------------------------------
(* The port and the startup *)

\* the readiness signal is in s.startupCh
ReadySignalled == startupCh # <<>> /\ Head(startupCh) = "nil"

\* a Port call has returned to p
PortReturned(p) == ret[p].call = "Port" /\ ret[p].data # <<>>

\* C31: with port 0 configured the bound port is recorded before the
\* readiness signal is sent: once NewSNMPOutput has returned the handle,
\* Port() returns the bound port, which is not zero, and that value never
\* changes afterwards.
C31_PortRecordedBeforeReady ==
    /\ [](ReadySignalled \/ HandleReturned => actualPort = EphemeralPort /\ actualPort # 0)
    /\ [](\A p \in Clients : PortReturned(p) =>
             /\ ret[p].data[1].port = EphemeralPort
             /\ ret[p].data[1].port # config.Port)
    /\ [][HandleReturned => actualPort' = actualPort]_vars

\* Port has returned the bound port after Close has closed the socket
C31_PortAfterClose ==
    /\ config.Port = 0
    /\ PortReturned("c1")
    /\ ret["c1"].data[1].port = EphemeralPort
    /\ socket = "closed"
    /\ closeReturned

\* NewSNMPOutput has returned an error
StartupFailed == pc["main"] = "returned" /\ ret["main"].err # "nil"

\* the places of runSNMPAgent from the top of the read loop on
LoopPlaces ==
    {"select", "read", "handle", "snapRLock", "snapshot", "dispatch", "listenerRLock",
     "getListener", "send"}

\* C40: whenever NewSNMPOutput returns an error (resolve failure, bind
\* failure or startup timeout) the background goroutine has ended or ends
\* without entering the read loop: no socket stays bound and nothing serves
\* requests without a handle through which it could be closed.
C40_NoAgentWithoutHandle ==
    StartupFailed => pc["agent"] \notin LoopPlaces /\ socket # "open"

----------------------------------------------------------------------------
(* One datagram, one reply *)

\* a datagram leaves the socket in this step
Sends == reply' # reply /\ reply' # <<>>

\* a reply leaves only in the send of handleRequest, once for the datagram
\* being handled, to its sender and with its id, version and community
SendsOnce ==
    Sends =>
        /\ pc["agent"] = "send" /\ pc'["agent"] = "select"
        /\ reply = <<>>
        /\ Len(reply') = 1
        /\ request' = request /\ request.decode = "ok"
        /\ reply'[1].to = request.remote
        /\ reply'[1].packet.RequestID = request.packet.RequestID
        /\ reply'[1].packet.Version = request.packet.Version
        /\ reply'[1].packet.Community = request.packet.Community

\* the send is left for the top of the loop, whether it failed or not
NoRetry ==
    pc["agent"] = "send" /\ pc'["agent"] # "send" =>
        /\ pc'["agent"] = "select"
        /\ socket # "open" => reply' = <<>>

\* a datagram is taken from the socket only by the read of the loop, when
\* the one before it and its reply are gone
OneAtATime ==
    request' # request /\ request' # NoRequest =>
        /\ pc["agent"] = "read" /\ pc'["agent"] = "handle"
        /\ request = NoRequest
        /\ reply = <<>> /\ response = <<>> /\ snapshot = <<>>

\* C32: each inbound datagram produces at most one reply datagram, addressed
\* to its sender and carrying the request's id, version and community; a
\* failed send is not retried, and datagrams are handled one at a time in
\* arrival order: no request is kept pending.
C32_OneReplyPerDatagram == [][SendsOnce /\ NoRetry /\ OneAtATime]_vars

\* the reply to a valid request has left for its sender and the loop is back
\* at its top
C32_ReplySent ==
    /\ pc["agent"] = "select"
    /\ request = LifeDatagrams.valid
    /\ reply # <<>>
    /\ reply[1].to = "10.0.0.2"
    /\ reply[1].packet.RequestID = request.packet.RequestID

----------------------------------------------------------------------------
(* Shutdown of the read loop *)

\* Close has closed s.done and the socket
ShutDown == doneCloses > 0 /\ socket = "closed"

\* the loop waits for a datagram
AtRead == pc["agent"] = "read"

\* having seen s.done closed at the top of the loop, or the error of the
\* closed socket in its read, the loop ends at once; it does not go to wait
\* for another datagram
ExitsWhenSeen ==
    /\ pc["agent"] = "select" /\ doneCloses > 0 /\ pc'["agent"] # "select" =>
          pc'["agent"] = "exited"
    /\ AtRead /\ socket = "closed" /\ pc'["agent"] # "read" => pc'["agent"] = "exited"
    /\ pc["agent"] = "exited" => pc'["agent"] = "exited"

\* after the shutdown no datagram is taken from the socket
NoReadAfterShutDown == ShutDown => (request' = request \/ request' = NoRequest)

\* C33: shutdown completes within one polling interval: once Close has
\* closed the shutdown signal and the socket, the read loop finishes at most
\* the one datagram it was reading or handling and exits; it never goes to
\* wait for another datagram after it has seen the shutdown signal or the
\* closed-socket error.
C33_ShutdownWithinOnePoll ==
    /\ [][ExitsWhenSeen /\ NoReadAfterShutDown]_vars
    /\ (ShutDown ~> pc["agent"] = "exited")

\* after the shutdown the loop has finished a valid request, the last
\* datagram it handled, and has exited; Close has yet to return
C33_ExitedAfterLastDatagram ==
    /\ pc["agent"] = "exited"
    /\ ShutDown
    /\ previous = "valid"
    /\ wg = 0
    /\ ~closeReturned

----------------------------------------------------------------------------
(* The layout of a GetBulk reply *)

\* the non-repeaters and the repetitions a GetBulk request is served with
GroupK == Min(request.packet.NonRepeaters, Len(Asked))

GroupR == IF request.packet.MaxRepetitions < 1 THEN 1 ELSE request.packet.MaxRepetitions

\* the table names after the name a, and the place of one of them among them
After(a) == {x \in DOMAIN Table : NumericLess(a, x)}

PlaceAfter(a, x) == Cardinality({y \in After(a) : NumericLess(y, x)}) + 1

\* the variables owed to the repeating name a: a name for each repetition,
\* or the names that are left and one marker
GroupLen(a) ==
    IF Cardinality(After(a)) >= GroupR THEN GroupR ELSE Cardinality(After(a)) + 1

\* the place in the reply before the first variable of the j-th repeating name
RECURSIVE GroupBase(_)
GroupBase(j) ==
    IF j = 1 THEN GroupK
    ELSE GroupBase(j - 1) + GroupLen(Asked[GroupK + j - 1].Name)

\* the repeating names of the request, by their place among them
Groups == 1..(Len(Asked) - GroupK)

\* C38: a GetBulk reply is grouped by requested address: the results of the
\* non-repeaters come first in request order, then for each repeating
\* address in request order all of its repetitions one after the other;
\* the repetitions of different addresses are not interleaved round by round.
C38_BulkGroupedByAddress ==
    Answered("GetBulkRequest") =>
        /\ Len(Returned) = GroupBase(Len(Asked) - GroupK + 1)
        /\ \A i \in 1..GroupK : IsNextOf(Table, Asked[i].Name, Returned[i])
        /\ \A j \in Groups :
              LET a == Asked[GroupK + j].Name IN
              \A i \in 1..Min(GroupR, Cardinality(After(a))) :
                 LET v == Returned[GroupBase(j) + i] IN
                 /\ v.Name \in After(a)
                 /\ PlaceAfter(a, v.Name) = i
                 /\ v = Table[v.Name]

\* two repeating names with three repetitions each: the three variables of
\* the first name are followed by the three of the second
C38_TwoGroupsOfThree ==
    /\ Answered("GetBulkRequest")
    /\ GroupK = 0 /\ GroupR = 3 /\ Len(Asked) = 2
    /\ Asked[1].Name = Base \o <<5, 1, 8>>
    /\ Asked[2].Name = Base
    /\ Len(Returned) = 6
    /\ Returned[2].Name = Base \o <<5, 1, 10>>
    /\ Returned[4].Name = Base \o <<1, 0>>
    /\ Returned[6].Name = Base \o <<3, 0>>

\* C39: when the cursor of a repeating address runs out of the tree,
\* exactly one end-of-tree marker is emitted for it, named by the cursor's
\* position (the last address returned for it, or the requested address when
\* nothing was returned); nothing more is emitted for that cursor, and the
\* repeating addresses after it are still served.
C39_OneMarkerPerCursor ==
    Answered("GetBulkRequest") =>
        /\ Len(Returned) = GroupBase(Len(Asked) - GroupK + 1)
        /\ \A j \in Groups :
              LET a == Asked[GroupK + j].Name
                  n == Cardinality(After(a))
                  group == SubSeq(Returned, GroupBase(j) + 1, GroupBase(j) + GroupLen(a))
                  markers == {i \in 1..Len(group) : group[i].Type = "EndOfMibView"}
              IN  IF n >= GroupR THEN markers = {}
                  ELSE /\ markers = {n + 1}
                       /\ Len(group) = n + 1
                       /\ group[n + 1] = EndOfMibView(IF n = 0 THEN normalizeOID(a)
                                                      ELSE group[n].Name)

\* the cursor of the first repeating name ran out after one variable, that
\* of the second had nothing to return, and the third name was served
C39_MarkersThenValues ==
    /\ Answered("GetBulkRequest")
    /\ GroupK = 0 /\ GroupR = 3 /\ Len(Asked) = 3
    /\ Len(Returned) = 6
    /\ Returned[1].Type # "EndOfMibView"
    /\ Returned[2] = EndOfMibView(Returned[1].Name)
    /\ Returned[3] = EndOfMibView(Asked[2].Name)
    /\ \A i \in 4..6 : Returned[i].Type # "EndOfMibView"

----------------------------------------------------------------------------
(* The key of a site *)

\* the key of a record: its site name, its URL when the name is empty
KeyOfRecord(r) == IF r.Site.Name # "" THEN r.Site.Name ELSE r.Site.URL

\* the writes of records with the key k
WritesOf(k) == {i \in 1..Len(written) : KeyOfRecord(written[i]) = k}

\* C37: Write aggregates a record under its site name, or under its URL
\* when the name is empty: two records share one aggregate and one index if
\* and only if their keys are equal, so a record with an empty name and the
\* URL u is counted with the records whose name is u.
C37_AggregatedByKey ==
    LET keys == {KeyOfRecord(written[i]) : i \in 1..Len(written)} IN
    /\ DOMAIN stats = keys
    /\ DOMAIN siteIndex = keys
    /\ \A k \in keys : stats[k].TotalTests = Cardinality(WritesOf(k))
    /\ \A k \in keys, l \in keys : siteIndex[k] = siteIndex[l] <=> k = l

\* a record without a name whose URL is a.example and a record named
\* a.example are counted in one aggregate, next to another site
C37_UnnamedCountedWithNamed ==
    /\ \E i \in 1..Len(written) : written[i].Site.Name = "" /\ written[i].Site.URL = "a.example"
    /\ \E i \in 1..Len(written) : written[i].Site.Name = "a.example"
    /\ stats["a.example"].TotalTests >= 2
    /\ Cardinality(DOMAIN stats) = 2
    /\ stats["a.example"].TotalTests < Len(written)

----------------------------------------------------------------------------
(* Totals, successes and failures *)

\* the sum of f over the set S
RECURSIVE SumOver(_, _)
SumOver(S, f) ==
    IF S = {} THEN 0
    ELSE LET x == CHOOSE y \in S : TRUE IN f[x] + SumOver(S \ {x}, f)

\* the Write calls that have updated the aggregates and returned
CompletedWrites == Len(written) - Cardinality({p \in Clients : pc[p] = "wStats"})

\* the field of a site in a snapshot
SiteNumber(snap, index, field) == NumberAt(snap, Base \o <<5, index, field>>)

\* C36: in every state of the store and in every snapshot served to a
\* poller, with writes running beside the requests, the total of each site
\* is the sum of its successes and its failures, and the totals of all
\* sites add up to the number of completed Write calls (for a snapshot:
\* those completed when it was taken, which while nothing has been evicted
\* is the history length it reports).
C36_TotalsAddUp ==
    /\ \A n \in DOMAIN stats :
          stats[n].TotalTests = stats[n].SuccessfulTests + stats[n].FailedTests
    /\ SumOver(DOMAIN stats, [n \in DOMAIN stats |-> stats[n].TotalTests]) = CompletedWrites
    /\ snapshot # <<>> =>
          LET snap == snapshot[1]
              sites == IndexesUnder5(snap)
              sum == SumOver(sites, [i \in sites |-> SiteNumber(snap, i, 2)])
          IN  /\ \A i \in sites :
                    SiteNumber(snap, i, 2) = SiteNumber(snap, i, 3) + SiteNumber(snap, i, 4)
              /\ sum <= CompletedWrites
              /\ Len(written) <= maxSize => sum = NumberAt(snap, Base \o <<1, 0>>)

\* a snapshot taken after a failure was written is being served while
\* another Write has appended its record and has yet to update the aggregates
C36_SnapshotBesideWrite ==
    /\ snapshot # <<>>
    /\ 1 \in IndexesUnder5(snapshot[1])
    /\ SiteNumber(snapshot[1], 1, 4) = 1
    /\ \E p \in Clients : pc[p] = "wStats"
    /\ Len(written) = 2
    /\ CompletedWrites = 1

(***************************************************************************)
(* The browser's failure diagnosis (inferFailurePhase, parseErrorType).    *)
(* A text is the sequence of its characters, each a one-character string;  *)
(* a pointer is <<>> when nil and <<v>> when it points to v.               *)
(***************************************************************************)

\* strings.HasPrefix(s, prefix)
HasPrefix(s, prefix) ==
    Len(s) >= Len(prefix) /\ SubSeq(s, 1, Len(prefix)) = prefix

HttpsScheme == <<"h", "t", "t", "p", "s", ":", "/", "/">>

\* faulty variant: the TLS phase is expected of every URL
inferFailurePhase_TLSAlways(timings, siteURL) ==
    IF timings = <<>> THEN "unknown"
    ELSE LET hasDNS == timings[1].DNSLookupMs # <<>>
             hasTCP == timings[1].TCPConnectionMs # <<>>
             hasTLS == timings[1].TLSHandshakeMs # <<>>
             hasTTFB == timings[1].TimeToFirstByteMs # <<>>
         IN  IF ~hasDNS THEN "dns"
             ELSE IF ~hasTCP THEN "tcp"
             ELSE IF ~hasTLS THEN "tls"
             ELSE IF ~hasTTFB THEN "http"
             ELSE "http"

inferFailurePhase(timings, siteURL) ==
    IF timings = <<>> THEN "unknown"
    ELSE LET hasDNS == timings[1].DNSLookupMs # <<>>
             hasTCP == timings[1].TCPConnectionMs # <<>>
             hasTLS == timings[1].TLSHandshakeMs # <<>>
             hasTTFB == timings[1].TimeToFirstByteMs # <<>>
             isHTTPS == HasPrefix(siteURL, HttpsScheme)
         IN  IF ~hasDNS THEN "dns"
             ELSE IF ~hasTCP THEN "tcp"
             ELSE IF isHTTPS /\ ~hasTLS THEN "tls"
             ELSE IF ~hasTTFB THEN "http"
             ELSE "http"

\* a *int64 of the timing metrics: nil, or a number of milliseconds
Millis == {<<>>, <<0>>, <<35>>}

\* the *models.TimingMetrics handed to inferFailurePhase: nil or a record
TimingMetrics ==
    {<<>>} \cup
    {<<t>> : t \in [DNSLookupMs : Millis, TCPConnectionMs : Millis,
                    TLSHandshakeMs : Millis, TimeToFirstByteMs : Millis]}

\* the site URLs: https, http, a prefix of the scheme, another case, none
SiteURLs ==
    {HttpsScheme \o <<"a">>,
     <<"h", "t", "t", "p", ":", "/", "/", "a">>,
     <<"h", "t", "t", "p", "s", ":", "/">>,
     <<"H", "T", "T", "P", "S", ":", "/", "/", "a">>,
     <<>>}

InitInfer ==
    /\ config = [EnterpriseOID |-> <<Empty>>, Community |-> "public"]
    /\ cache = <<>>
    /\ stats = <<>>
    /\ siteIndex = <<>>
    /\ nextSiteIndex = 0
    /\ written = <<>>
    /\ firstSeen = <<>>
    /\ request = NoRequest
    /\ snapshot = <<>>
    /\ reply = <<>>
    /\ input \in [timings : TimingMetrics, siteURL : SiteURLs]
    /\ NoObjects
    /\ output = <<>>
    /\ walk = IdleWalk
    /\ Listening

\* the failed check's phase is inferred from its timings and URL
InferPhase ==
    /\ output = <<>>
    /\ output' = [phase |-> inferFailurePhase(input.timings, input.siteURL)]
    /\ UNCHANGED <<storeVars, request, snapshot, reply, input, heapVars, walk, lifeVars>>

NextInfer == InferPhase

SpecInfer == InitInfer /\ [][NextInfer]_vars

\* the phases a URL goes through before the HTTP exchange, in order
PhasesBefore(siteURL) ==
    IF Len(siteURL) >= 8 /\ SubSeq(siteURL, 1, 8) = HttpsScheme THEN <<"dns", "tcp", "tls">>
    ELSE <<"dns", "tcp">>

\* the timing of a phase
TimingOf(t, phase) ==
    CASE phase = "dns" -> t.DNSLookupMs
      [] phase = "tcp" -> t.TCPConnectionMs
      [] phase = "tls" -> t.TLSHandshakeMs

\* the places of the phases whose timing is missing
MissingPlaces(t, siteURL) ==
    {i \in DOMAIN PhasesBefore(siteURL) : TimingOf(t, PhasesBefore(siteURL)[i]) = <<>>}

Least(S) == CHOOSE i \in S : \A j \in S : i <= j

\* C34: inferFailurePhase returns "unknown" when the timings are nil, and
\* otherwise the first phase whose timing is missing, in the order dns, tcp,
\* tls, the tls phase counting only for a URL that starts with https://;
\* it returns "http" when no such phase is missing, whether the time to
\* first byte is there or not.
C34_FirstMissingPhase ==
    output # <<>> =>
        IF input.timings = <<>> THEN output.phase = "unknown"
        ELSE LET missing == MissingPlaces(input.timings[1], input.siteURL) IN
             IF missing # {}
             THEN output.phase = PhasesBefore(input.siteURL)[Least(missing)]
             ELSE output.phase = "http"

\* a plain-http check without a TLS timing and without a first byte failed
\* in the http phase
C34_HttpWithoutTLS ==
    /\ output # <<>>
    /\ input.timings # <<>>
    /\ input.timings[1].DNSLookupMs # <<>>
    /\ input.timings[1].TCPConnectionMs # <<>>
    /\ input.timings[1].TLSHandshakeMs = <<>>
    /\ input.timings[1].TimeToFirstByteMs = <<>>
    /\ ~HasPrefix(input.siteURL, HttpsScheme)
    /\ input.siteURL # <<>>
    /\ output.phase = "http"

(***************************************************************************)
(* parseErrorType and the operations of package strings it is made of.     *)
(***************************************************************************)

\* strings.Index(s, substr): the place of the first occurrence of substr
\* in s, counted from 0, or -1
Index(s, substr) ==
    LET at == {i \in 0..(Len(s) - Len(substr)) :
                   SubSeq(s, i + 1, i + Len(substr)) = substr}
    IN  IF at = {} THEN -1 ELSE Least(at)

\* strings.Contains(s, substr)
Contains(s, substr) == Index(s, substr) >= 0

\* strings.Split(s, sep), for a separator that is not empty
RECURSIVE Split(_, _)
Split(s, sep) ==
    LET i == Index(s, sep) IN
    IF i = -1 THEN <<s>>
    ELSE <<SubSeq(s, 1, i)>> \o Split(SubSeq(s, i + Len(sep) + 1, Len(s)), sep)

WhiteSpace == {" ", "\t", "\n", "\r"}

\* strings.TrimSpace(s): s without its leading and trailing white space
RECURSIVE TrimSpaceText(_)
TrimSpaceText(s) ==
    IF s = <<>> THEN s
    ELSE IF s[1] \in WhiteSpace THEN TrimSpaceText(Tail(s))
    ELSE IF s[Len(s)] \in WhiteSpace THEN TrimSpaceText(SubSeq(s, 1, Len(s) - 1))
    ELSE s

UpperCase ==
    <<"A", "B", "C", "D", "E", "F", "G", "H", "I", "J", "K", "L", "M",
    "N", "O", "P", "Q", "R", "S", "T", "U", "V", "W", "X", "Y", "Z">>

LowerCase ==
    <<"a", "b", "c", "d", "e", "f", "g", "h", "i", "j", "k", "l", "m",
    "n", "o", "p", "q", "r", "s", "t", "u", "v", "w", "x", "y", "z">>

\* strings.ToLower(s), on the letters A to Z
ToLower(s) ==
    [i \in DOMAIN s |->
        IF \E k \in DOMAIN UpperCase : UpperCase[k] = s[i]
        THEN LowerCase[CHOOSE k \in DOMAIN UpperCase : UpperCase[k] = s[i]]
        ELSE s[i]]

\* "net::"
NetMark ==
    <<"n", "e", "t", ":", ":">>

\* "net::ERR_"
NetErrMark ==
    <<"n", "e", "t", ":", ":", "E", "R", "R", "_">>

\* "ERR_"
ErrMark ==
    <<"E", "R", "R", "_">>

\* "context deadline exceeded"
DeadlineText ==
    <<"c", "o", "n", "t", "e", "x", "t", " ", "d", "e", "a", "d", "l",
    "i", "n", "e", " ", "e", "x", "c", "e", "e", "d", "e", "d">>

\* "timeout"
TimeoutText ==
    <<"t", "i", "m", "e", "o", "u", "t">>

\* "unknown"
UnknownText ==
    <<"u", "n", "k", "n", "o", "w", "n">>

parseErrorType(err, chromeError) ==
    IF chromeError # <<>>
    THEN IF /\ Contains(chromeError, NetMark)
            /\ Len(Split(chromeError, NetMark)) > 1
         THEN TrimSpaceText(Split(chromeError, NetMark)[2])
         ELSE IF /\ Contains(chromeError, NetErrMark)
                 /\ Index(chromeError, ErrMark) # -1
         THEN LET start == Index(chromeError, ErrMark)
                  errCode == SubSeq(chromeError, start + 1, Len(chromeError))
                  spaceIdx == Index(errCode, <<" ">>)
              IN  IF spaceIdx # -1 THEN SubSeq(errCode, 1, spaceIdx) ELSE errCode
         ELSE chromeError
    ELSE IF err = <<>> THEN UnknownText
    ELSE LET errStr == ToLower(err[1]) IN
         IF Contains(errStr, DeadlineText) \/ Contains(errStr, TimeoutText)
         THEN TimeoutText
         ELSE UnknownText

\* the texts before net:: in a Chrome error: none, or "page load error "
BeforeTexts ==
    {<<>>,
     <<"p", "a", "g", "e", " ", "l", "o", "a", "d", " ", "e", "r", "r",
     "o", "r", " ">>}

\* the error codes: ERR_ABORTED, ERR_CONNECTION_REFUSED, ERR_NAME_NOT_RESOLVED
ErrorCodes ==
    {<<"E", "R", "R", "_", "A", "B", "O", "R", "T", "E", "D">>,
     <<"E", "R", "R", "_", "C", "O", "N", "N", "E", "C", "T", "I", "O",
     "N", "_", "R", "E", "F", "U", "S", "E", "D">>,
     <<"E", "R", "R", "_", "N", "A", "M", "E", "_", "N", "O", "T", "_",
     "R", "E", "S", "O", "L", "V", "E", "D">>}

\* the texts after the code: none, " at navigation", a blank, and a second
\* error " (net::ERR_FAILED)"
AfterTexts ==
    {<<>>,
     <<" ", "a", "t", " ", "n", "a", "v", "i", "g", "a", "t", "i", "o",
     "n">>,
     <<" ">>,
     <<" ", "(", "n", "e", "t", ":", ":", "E", "R", "R", "_", "F", "A",
     "I", "L", "E", "D", ")">>}

\* the Chrome error texts: none, the texts around a code, and texts
\* without a code: "Navigation failed" and "net::"
ChromeErrors ==
    {b \o NetMark \o c \o a : b \in BeforeTexts, c \in ErrorCodes, a \in AfterTexts}
    \cup {<<>>,
          <<"N", "a", "v", "i", "g", "a", "t", "i", "o", "n", " ", "f",
          "a", "i", "l", "e", "d">>,
          NetMark}

\* the chromedp errors: nil, "context deadline exceeded", "timeout waiting
\* for page", "some other error", "Timeout"
ChromedpErrors ==
    {<<>>,
     <<DeadlineText>>,
     <<<<"t", "i", "m", "e", "o", "u", "t", " ", "w", "a", "i", "t",
       "i", "n", "g", " ", "f", "o", "r", " ", "p", "a", "g", "e">>>>,
     <<<<"s", "o", "m", "e", " ", "o", "t", "h", "e", "r", " ", "e",
       "r", "r", "o", "r">>>>,
     <<<<"T", "i", "m", "e", "o", "u", "t">>>>}

InitParse ==
    /\ config = [EnterpriseOID |-> <<Empty>>, Community |-> "public"]
    /\ cache = <<>>
    /\ stats = <<>>
    /\ siteIndex = <<>>
    /\ nextSiteIndex = 0
    /\ written = <<>>
    /\ firstSeen = <<>>
    /\ request = NoRequest
    /\ snapshot = <<>>
    /\ reply = <<>>
    /\ input \in [err : ChromedpErrors, chromeError : ChromeErrors]
    /\ NoObjects
    /\ output = <<>>
    /\ walk = IdleWalk
    /\ Listening

\* the failed check's error type is parsed from its two errors
ParseError ==
    /\ output = <<>>
    /\ output' = [errorType |-> parseErrorType(input.err, input.chromeError)]
    /\ UNCHANGED <<storeVars, request, snapshot, reply, input, heapVars, walk, lifeVars>>

NextParse == ParseError

SpecParse == InitParse /\ [][NextParse]_vars

\* the characters of an error code
CodeCharacters == {UpperCase[k] : k \in DOMAIN UpperCase} \cup {"_"}

\* the code that follows the first net:: of a text that contains net::ERR_:
\* the characters from ERR_ up to the first that is not of a code
CodeToken(text) ==
    LET first == Index(text, NetErrMark) + Len(NetMark) + 1
        ends == {j \in first..Len(text) :
                    /\ \A i \in first..j : text[i] \in CodeCharacters
                    /\ j = Len(text) \/ text[j + 1] \notin CodeCharacters}
    IN  SubSeq(text, first, Least(ends))

\* an error that mentions a deadline or a timeout
MentionsTimeout(err) ==
    /\ err # <<>>
    /\ \/ Contains(ToLower(err[1]), DeadlineText)
       \/ Contains(ToLower(err[1]), TimeoutText)

\* C35: when the Chrome error text contains net::ERR_..., parseErrorType
\* returns exactly the bare code (as ERR_ABORTED), without the text before
\* net:: and without the text after the code, whatever the chromedp error
\* is; without a Chrome error text it returns "timeout" for an error that
\* mentions a deadline or a timeout, and "unknown" otherwise, a nil error
\* included.
C35_BareErrorCode ==
    output # <<>> =>
        /\ Contains(input.chromeError, NetErrMark) =>
               output.errorType = CodeToken(input.chromeError)
        /\ input.chromeError = <<>> =>
               output.errorType =
                   IF MentionsTimeout(input.err) THEN TimeoutText ELSE UnknownText

====
